---- MODULE Spec2Model ----
(***************************************************************************)
(* A model of the pool evaluation engine of hdroller/icepool: weighted     *)
(* dice, dice pools and their pop_max decomposition, the memoized          *)
(* EvalPool fold, the weight-merging policies of die construction, the     *)
(* multiset operators and the Deck generator.                              *)
(***************************************************************************)
EXTENDS Integers, Sequences, FiniteSets, TLC

VARIABLES
    cache,      \* EvalPool._cache of each shared evaluator instance
    call,       \* the last public call made (operation and its arguments)
    result,     \* the die returned by the last call, as outcome -> weight
    ncalls,     \* number of calls made so far
    m_args,     \* the sub-distributions and weights given to die construction
    m_out,      \* the merged data built so far, per denominator method
    x_call,     \* the last operator or method applied to multiset expressions
    x_expr,     \* the expression it returned
    x_die,      \* expand() of that expression, as sorted tuple -> weight
    q_call,     \* the last call made on a die, a pool, a deck or a keep node
    q_out       \* what that call returned, or that it raised

poolVars == <<cache, call, result, ncalls>>
mergeVars == <<m_args, m_out>>
exprVars == <<x_call, x_expr, x_die>>
queryVars == <<q_call, q_out>>
vars == <<cache, call, result, ncalls, m_args, m_out, x_call, x_expr, x_die,
          q_call, q_out>>

(***************************************************************************)
(* Bounds of the model.                                                    *)
(***************************************************************************)
MaxDice == 3
MaxCalls == 2
MaxSources == 2
MaxCount == 2
MaxConstant == 3
MaxPool == 2

\* Outcomes and weights the dice of the model are built from.
OutcomeSet == {1, 2, 3}
WeightSet == {0, 1, 2}

(***************************************************************************)
(* Python values: Optional, sequences, integer arithmetic.                 *)
(***************************************************************************)
None == <<>>
Some(x) == <<x>>

RECURSIVE Pow(_, _)
Pow(b, e) == IF e <= 0 THEN 1 ELSE b * Pow(b, e - 1)

RECURSIVE SumSeq(_)
SumSeq(s) == IF Len(s) = 0 THEN 0 ELSE s[1] + SumSeq(Tail(s))

RECURSIVE ProdSeq(_)
ProdSeq(s) == IF Len(s) = 0 THEN 1 ELSE s[1] * ProdSeq(Tail(s))

MaxOf(S) == CHOOSE x \in S : \A y \in S : y <= x
MinOf(S) == CHOOSE x \in S : \A y \in S : x <= y
Max2(a, b) == IF a >= b THEN a ELSE b
Min2(a, b) == IF a <= b THEN a ELSE b

\* sorted(S) of a set of integers
SetToSeq(S) ==
    [j \in 1..Cardinality(S) |->
        CHOOSE v \in S : Cardinality({u \in S : u < v}) = j - 1]

Range(s) == {s[i] : i \in 1..Len(s)}

\* sorted(seq): the ascending rearrangement of a sequence of integers.
sorted(s) ==
    [j \in 1..Len(s) |->
        CHOOSE v \in Range(s) :
            /\ Cardinality({i \in 1..Len(s) : s[i] < v}) < j
            /\ j <= Cardinality({i \in 1..Len(s) : s[i] <= v})]

\* bisect.bisect_left / bisect_right on a sorted sequence (0-based result).
bisect_left(a, x) == Cardinality({i \in 1..Len(a) : a[i] < x})
bisect_right(a, x) == Cardinality({i \in 1..Len(a) : a[i] <= x})

\* Python slice(start, stop) applied to a sequence of length n: the 0-based
\* half-open interval [lo, hi) it selects. start/stop are Optional ints.
slice_lo(n, start) ==
    IF start = None THEN 0
    ELSE IF start[1] < 0 THEN Max2(start[1] + n, 0) ELSE Min2(start[1], n)
slice_hi(n, stop) ==
    IF stop = None THEN n
    ELSE IF stop[1] < 0 THEN Max2(stop[1] + n, 0) ELSE Min2(stop[1], n)

\* math.comb(n, k)
RECURSIVE comb(_, _)
comb(n, k) ==
    IF k < 0 \/ k > n THEN 0
    ELSE IF k = 0 \/ k = n THEN 1
    ELSE comb(n - 1, k - 1) + comb(n - 1, k)

(***************************************************************************)
(* Dice (hdroller BaseDie).  A die is the tuple of its (outcome, weight)   *)
(* items in ascending outcome order.                                       *)
(***************************************************************************)
outcomes(die) == [i \in 1..Len(die) |-> die[i][1]]
weights(die) == [i \in 1..Len(die) |-> die[i][2]]
total_weight(die) == SumSeq(weights(die))
min_outcome(die) == outcomes(die)[1]
max_outcome(die) == outcomes(die)[Len(die)]
contains(die, outcome) == \E i \in 1..Len(die) : die[i][1] = outcome
weight(die, outcome) ==
    IF contains(die, outcome)
    THEN (CHOOSE it \in Range(die) : it[1] = outcome)[2]
    ELSE 0

\* itertools.accumulate(self.weights())
cweights(die) == [i \in 1..Len(die) |-> SumSeq(SubSeq(weights(die), 1, i))]

\* BaseDie.weight_le, as written: the bisect_right index is used directly
\* as the (0-based) subscript of cweights.
weight_le(die, outcome) ==
    LET index == bisect_right(outcomes(die), outcome)
    IN IF index >= Len(die) THEN total_weight(die) ELSE cweights(die)[index + 1]

\* BaseDie.weight_lt, as written.
weight_lt(die, outcome) ==
    LET index == bisect_left(outcomes(die), outcome)
    IN IF index >= Len(die) THEN total_weight(die) ELSE cweights(die)[index + 1]

\* itertools.accumulate(self.weights()[:-1], operator.sub, initial=total)
sweights(die) ==
    [i \in 1..Len(die) |-> total_weight(die) - SumSeq(SubSeq(weights(die), 1, i - 1))]

\* BaseDie.weight_ge, as written.
weight_ge(die, outcome) ==
    LET index == bisect_left(outcomes(die), outcome)
    IN IF index >= Len(die) THEN total_weight(die) ELSE sweights(die)[index + 1]

\* BaseDie.weight_gt, as written.
weight_gt(die, outcome) ==
    LET index == bisect_right(outcomes(die), outcome)
    IN IF index >= Len(die) THEN total_weight(die) ELSE sweights(die)[index + 1]

\* As die_pop_max, leaving the max outcome in the die.
die_pop_max_keeps(die) ==
    <<die, die[Len(die)][1], die[Len(die)][2]>>

\* BaseDie.pop_max: (die without its max outcome, max outcome, its weight).
\* The exhausted die is the die with no items, as pool.py takes its len().
die_pop_max(die) ==
    <<SubSeq(die, 1, Len(die) - 1), die[Len(die)][1], die[Len(die)][2]>>

\* BaseDie._key_tuple (all dice of the model are scalar).
die_key_tuple(die) == die

(***************************************************************************)
(* Dice pools (hdroller/pool.py).  A pool is a record                      *)
(*   [die, count_dice, min_outcomes, max_outcomes]                          *)
(* where the caps are None or Some(sorted tuple).                          *)
(***************************************************************************)

\* _compute_count_dice for an int: result[count_dice] = 1 (Python index).
compute_count_dice_int(num_dice, index) ==
    LET pos == IF index < 0 THEN index + num_dice ELSE index
    IN [j \in 1..num_dice |-> IF j = pos + 1 THEN 1 ELSE 0]

\* _compute_count_dice for a slice: the selected positions are set to 1.
compute_count_dice_slice(num_dice, start, stop) ==
    [j \in 1..num_dice |->
        IF slice_lo(num_dice, start) <= j - 1 /\ j - 1 < slice_hi(num_dice, stop)
        THEN 1 ELSE 0]

\* As Pool_raises, raising whenever both caps are given.
Pool_raises_given(die, num_dice, count_dice, min_outcomes, max_outcomes) ==
    LET lens == (IF num_dice = None THEN <<>> ELSE <<num_dice[1]>>)
                \o (IF count_dice = None THEN <<>> ELSE <<Len(count_dice[1])>>)
                \o (IF min_outcomes = None THEN <<>> ELSE <<Len(min_outcomes[1])>>)
                \o (IF max_outcomes = None THEN <<>> ELSE <<Len(max_outcomes[1])>>)
    IN \/ \E i \in 1..Len(lens) - 1 : lens[i] # lens[i + 1]
       \/ (min_outcomes # None /\ max_outcomes # None)

\* Pool(): the conflicts that raise ValueError.
Pool_raises(die, num_dice, count_dice, min_outcomes, max_outcomes) ==
    LET lens == (IF count_dice = None THEN <<>> ELSE <<Len(count_dice[1])>>)
                \o (IF min_outcomes = None THEN <<>> ELSE <<Len(min_outcomes[1])>>)
                \o (IF max_outcomes = None THEN <<>> ELSE <<Len(max_outcomes[1])>>)
        all_lens == (IF num_dice = None THEN <<>> ELSE <<num_dice[1]>>) \o lens
        n == IF Len(all_lens) = 0 THEN 0 ELSE all_lens[Len(all_lens)]
        min_std == n > 0 /\ min_outcomes # None
                   /\ MaxOf(Range(min_outcomes[1])) > min_outcome(die)
        max_std == n > 0 /\ max_outcomes # None
                   /\ MinOf(Range(max_outcomes[1])) < max_outcome(die)
    IN \/ \E i \in 1..Len(all_lens) - 1 : all_lens[i] # all_lens[i + 1]
       \/ (min_std /\ max_std)

\* Pool() when it does not raise, for an explicit count_dice tuple: the
\* caps are put into standard form (a sorted tuple clipped to the die, or
\* None when they do not limit the die).
Pool(die, count_dice, min_outcomes, max_outcomes) ==
    LET num_dice == Len(count_dice)
        min_std ==
            IF num_dice = 0 \/ min_outcomes = None THEN None
            ELSE IF MaxOf(Range(min_outcomes[1])) > min_outcome(die)
                 THEN Some(sorted([i \in 1..Len(min_outcomes[1]) |->
                                     Max2(min_outcomes[1][i], min_outcome(die))]))
                 ELSE None
        max_std ==
            IF num_dice = 0 \/ max_outcomes = None THEN None
            ELSE IF MinOf(Range(max_outcomes[1])) < max_outcome(die)
                 THEN Some(sorted([i \in 1..Len(max_outcomes[1]) |->
                                     Min2(max_outcomes[1][i], max_outcome(die))]))
                 ELSE None
    IN [die |-> die, count_dice |-> count_dice,
        min_outcomes |-> min_std, max_outcomes |-> max_std]

\* A raised exception, in the place of the value a call would return.
Raises(exception) == [raises |-> exception]
IsRaise(x) == "raises" \in DOMAIN x

\* The factory function Pool(die, num_dice, count_dice, min_outcomes=,
\* max_outcomes=) for count_dice None or a tuple: the pool, or ValueError.
PoolFactory(die, num_dice, count_dice, min_outcomes, max_outcomes) ==
    IF Pool_raises(die, num_dice, count_dice, min_outcomes, max_outcomes)
    THEN Raises("ValueError")
    ELSE LET given == (IF num_dice = None THEN <<>> ELSE <<num_dice[1]>>)
                      \o (IF count_dice = None THEN <<>> ELSE <<Len(count_dice[1])>>)
                      \o (IF min_outcomes = None THEN <<>> ELSE <<Len(min_outcomes[1])>>)
                      \o (IF max_outcomes = None THEN <<>> ELSE <<Len(max_outcomes[1])>>)
             n == IF Len(given) = 0 THEN 0 ELSE given[1]
         IN Pool(die,
                 IF count_dice = None THEN [i \in 1..n |-> 1] ELSE count_dice[1],
                 min_outcomes, max_outcomes)

num_dice_of(pool) == Len(pool.count_dice)

\* DicePool.max_outcomes(always_tuple=True)
max_outcomes_tuple(pool) ==
    IF pool.max_outcomes = None
    THEN [i \in 1..num_dice_of(pool) |-> max_outcome(pool.die)]
    ELSE pool.max_outcomes[1]

\* hdroller.math.comb_row(n, b): row n of Pascal's triangle with the k-th
\* entry multiplied by b^k, built row by row.
RECURSIVE comb_row(_, _)
comb_row(n, b) ==
    IF n = 0 THEN <<1>>
    ELSE LET prev == comb_row(n - 1, b)
         IN [k \in 1..n + 1 |->
                (IF k <= n THEN prev[k] ELSE 0)
                + (IF k >= 2 THEN b * prev[k - 1] ELSE 0)]

\* As pop_max_loop, leaving the caps of the dice taken out in place.
RECURSIVE pop_max_loop_keeps_caps(_, _, _, _, _, _, _)
pop_max_loop_keeps_caps(popped_die, row, k, count, popped_max_outcomes, popped_count_dice, acc) ==
    IF k > Len(row) THEN acc
    ELSE LET count2 == count + popped_count_dice[Len(popped_count_dice)]
             pcd2 == SubSeq(popped_count_dice, 1, Len(popped_count_dice) - 1)
             pool == PoolFactory(popped_die, None, Some(pcd2), None,
                                 Some(popped_max_outcomes))
         IN pop_max_loop_keeps_caps(popped_die, row, k + 1, count2,
                                    popped_max_outcomes, pcd2,
                                    Append(acc, <<Some(pool), count2, row[k]>>))

\* As pop_max_loop, reading the row one entry too early.
RECURSIVE pop_max_loop_shifted(_, _, _, _, _, _, _)
pop_max_loop_shifted(popped_die, row, k, count, popped_max_outcomes, popped_count_dice, acc) ==
    IF k > Len(row) THEN acc
    ELSE LET count2 == count + popped_count_dice[Len(popped_count_dice)]
             pmo2 == SubSeq(popped_max_outcomes, 1, Len(popped_max_outcomes) - 1)
             pcd2 == SubSeq(popped_count_dice, 1, Len(popped_count_dice) - 1)
             pool == PoolFactory(popped_die, None, Some(pcd2), None, Some(pmo2))
         IN pop_max_loop_shifted(popped_die, row, k + 1, count2, pmo2, pcd2,
                                 Append(acc, <<Some(pool), count2, row[k - 1]>>))

\* As pop_max_loop, counting the dice that rolled the outcome.
RECURSIVE pop_max_loop_raw_count(_, _, _, _, _, _, _)
pop_max_loop_raw_count(popped_die, row, k, count, popped_max_outcomes, popped_count_dice, acc) ==
    IF k > Len(row) THEN acc
    ELSE LET count2 == count + 1
             pmo2 == SubSeq(popped_max_outcomes, 1, Len(popped_max_outcomes) - 1)
             pcd2 == SubSeq(popped_count_dice, 1, Len(popped_count_dice) - 1)
             pool == PoolFactory(popped_die, None, Some(pcd2), None, Some(pmo2))
         IN pop_max_loop_raw_count(popped_die, row, k + 1, count2, pmo2, pcd2,
                                   Append(acc, <<Some(pool), count2, row[k]>>))

\* The loop of _iter_pop_max over comb_row[1:]: each iteration moves the
\* last remaining count_dice entry into count and drops the last cap.
RECURSIVE pop_max_loop(_, _, _, _, _, _, _)
pop_max_loop(popped_die, row, k, count, popped_max_outcomes, popped_count_dice, acc) ==
    IF k > Len(row) THEN acc
    ELSE LET count2 == count + popped_count_dice[Len(popped_count_dice)]
             pmo2 == SubSeq(popped_max_outcomes, 1, Len(popped_max_outcomes) - 1)
             pcd2 == SubSeq(popped_count_dice, 1, Len(popped_count_dice) - 1)
             pool == PoolFactory(popped_die, None, Some(pcd2), None, Some(pmo2))
         IN pop_max_loop(popped_die, row, k + 1, count2, pmo2, pcd2,
                         Append(acc, <<Some(pool), count2, row[k]>>))

\* The branch for zero dice rolling the popped outcome.
zero_dice_weight == 1

\* As iter_pop_max, branching on the number of dice also when the max
\* outcome has weight 0.
iter_pop_max_always_branches(pool) ==
    LET max_outcomes == max_outcomes_tuple(pool)
        remaining_count == SumSeq(pool.count_dice)
        num_possible_dice ==
            num_dice_of(pool) - bisect_left(max_outcomes, max_outcome(pool.die))
        num_unused_dice == num_dice_of(pool) - num_possible_dice
        popped == die_pop_max(pool.die)
        popped_die == popped[1]
        single_weight == popped[3]
    IN IF Len(popped_die) = 0
       THEN << <<None, remaining_count, Pow(single_weight, num_possible_dice)>> >>
       ELSE IF total_weight(popped_die) = 0
       THEN << <<Some(PoolFactory(popped_die, None, Some(<<>>), None, Some(<<>>))), remaining_count,
                 Pow(single_weight, num_possible_dice)>> >>
       ELSE IF \A i \in 1..num_dice_of(pool) : pool.count_dice[i] = 0
       THEN << <<Some(PoolFactory(popped_die, None, Some(<<>>), None, Some(<<>>))), 0,
                 ProdSeq([i \in 1..Len(max_outcomes) |->
                             weight_le(pool.die, max_outcomes[i])])>> >>
       ELSE LET popped_max_outcomes ==
                    SubSeq(max_outcomes, 1, num_unused_dice)
                    \o [i \in 1..num_possible_dice |-> max_outcome(popped_die)]
                popped_count_dice == pool.count_dice
                first == <<Some(PoolFactory(popped_die, None, Some(popped_count_dice),
                                            None, Some(popped_max_outcomes))),
                           0, zero_dice_weight>>
            IN IF single_weight >= 0
               THEN pop_max_loop(popped_die, comb_row(num_possible_dice, single_weight),
                                 2, 0, popped_max_outcomes, popped_count_dice, <<first>>)
               ELSE <<first>>

\* DicePool._iter_pop_max: the sequence of (pool or None, count, weight).
iter_pop_max(pool) ==
    LET max_outcomes == max_outcomes_tuple(pool)
        remaining_count == SumSeq(pool.count_dice)
        num_possible_dice ==
            num_dice_of(pool) - bisect_left(max_outcomes, max_outcome(pool.die))
        num_unused_dice == num_dice_of(pool) - num_possible_dice
        popped == die_pop_max(pool.die)
        popped_die == popped[1]
        single_weight == popped[3]
    IN IF Len(popped_die) = 0
       THEN << <<None, remaining_count, Pow(single_weight, num_possible_dice)>> >>
       ELSE IF total_weight(popped_die) = 0
       THEN << <<Some(PoolFactory(popped_die, None, Some(<<>>), None, Some(<<>>))), remaining_count,
                 Pow(single_weight, num_possible_dice)>> >>
       ELSE IF \A i \in 1..num_dice_of(pool) : pool.count_dice[i] = 0
       THEN << <<Some(PoolFactory(popped_die, None, Some(<<>>), None, Some(<<>>))), 0,
                 ProdSeq([i \in 1..Len(max_outcomes) |->
                             weight_le(pool.die, max_outcomes[i])])>> >>
       ELSE LET popped_max_outcomes ==
                    SubSeq(max_outcomes, 1, num_unused_dice)
                    \o [i \in 1..num_possible_dice |-> max_outcome(popped_die)]
                popped_count_dice == pool.count_dice
                first == <<Some(PoolFactory(popped_die, None, Some(popped_count_dice),
                                            None, Some(popped_max_outcomes))),
                           0, zero_dice_weight>>
            IN IF single_weight > 0
               THEN pop_max_loop(popped_die, comb_row(num_possible_dice, single_weight),
                                 2, 0, popped_max_outcomes, popped_count_dice, <<first>>)
               ELSE <<first>>

\* DicePool.__getitem__ for a sequence of ints.
getitem(pool, count_dice) ==
    IF Len(count_dice) # num_dice_of(pool)
       /\ (pool.min_outcomes # None \/ pool.max_outcomes # None)
    THEN Raises("ValueError")
    ELSE PoolFactory(pool.die, None, Some(count_dice),
                     pool.min_outcomes, pool.max_outcomes)

\* DicePool.pop_max: the branches of _iter_pop_max, or ValueError.
pop_max(pool) ==
    IF pool.min_outcomes # None THEN Raises("ValueError") ELSE iter_pop_max(pool)

\* As key_tuple, without the count_dice of the pool.
key_tuple_no_counts(pool) ==
    <<die_key_tuple(pool.die), <<>>, pool.min_outcomes, pool.max_outcomes>>

\* DicePool._key_tuple, by which pools are compared and hashed.
key_tuple(pool) ==
    <<die_key_tuple(pool.die), pool.count_dice, pool.min_outcomes, pool.max_outcomes>>

(***************************************************************************)
(* Evaluators (hdroller/eval_pool.py).  A distribution is a function       *)
(* state -> weight; counts are Optional ints (None: outcome not in pool).  *)
(***************************************************************************)
Evaluators == {"sum_pool", "find_matching_sets"}

EmptyDist == <<>>

RECURSIVE dist_sum(_, _)
dist_sum(dist, todo) ==
    IF todo = {} THEN 0
    ELSE LET x == CHOOSE y \in todo : TRUE
         IN dist[x] + dist_sum(dist, todo \ {x})

\* The total weight (denominator) of a distribution.
denominator(dist) == dist_sum(dist, DOMAIN dist)

\* result[state] += w on a defaultdict(int)
dist_add(dist, state, w) ==
    IF state \in DOMAIN dist
    THEN [dist EXCEPT ![state] = @ + w]
    ELSE dist @@ (state :> w)

\* Python tuple comparison for pairs, as used by max().
pair_max(a, b) ==
    IF a[1] > b[1] \/ (a[1] = b[1] /\ a[2] >= b[2]) THEN a ELSE b

\* SumPool.initial_state / FindMatchingSets.initial_state
initial_state(ev) == IF ev = "sum_pool" THEN 0 ELSE <<-1, 0>>

\* SumPool.next_state / FindMatchingSets.next_state (single pool)
next_state(ev, prev_state, outcome, counts) ==
    IF ev = "sum_pool"
    THEN prev_state + outcome * counts[1][1]
    ELSE pair_max(prev_state, <<counts[1][1], outcome>>)

\* EvalPool.reroll_state (not overridden)
reroll_state(ev, prev_state, outcome, counts) == FALSE

\* EvalPool.final_outcome (not overridden)
final_outcome(ev, final_state) == final_state

\* The branches a pool yields, with their counts as Optional ints.
yield_from(b) == [j \in 1..Len(b) |-> <<b[j][1], Some(b[j][2]), b[j][3]>>]

\* As iter_pool, taking an outcome of zero weight as absent from the die.
iter_pool_positive(outcome, pool) ==
    IF pool = None \/ ~(\E i \in 1..Len(pool[1].die) :
                           pool[1].die[i][1] = outcome /\ pool[1].die[i][2] > 0)
    THEN << <<pool, None, 1>> >>
    ELSE yield_from(iter_pop_max(pool[1]))

\* EvalPool._iter_pool
iter_pool(outcome, pool) ==
    IF pool = None \/ ~contains(pool[1].die, outcome)
    THEN << <<pool, None, 1>> >>
    ELSE yield_from(iter_pop_max(pool[1]))

\* itertools.product of a sequence of sequences, rightmost fastest.
RECURSIVE product(_)
product(seqs) ==
    IF Len(seqs) = 0 THEN << <<>> >>
    ELSE LET rest == product(Tail(seqs))
             head == seqs[1]
         IN [j \in 1..Len(head) * Len(rest) |->
                <<head[((j - 1) \div Len(rest)) + 1]>>
                \o rest[((j - 1) % Len(rest)) + 1]]

\* The key under which _eval_internal caches: pools compare by _key_tuple.
cache_key_of(state, pools) ==
    <<state, [i \in 1..Len(pools) |->
                IF pools[i] = None THEN None ELSE Some(key_tuple(pools[i][1]))]>>

\* The inner loop of _eval_internal over prev.items().
RECURSIVE fold_prev(_, _, _, _, _, _, _)
fold_prev(ev, outcome, counts, prod_weight, prev, todo, res) ==
    IF todo = {} THEN res
    ELSE LET prev_state == CHOOSE x \in todo : TRUE
             res2 == IF reroll_state(ev, prev_state, outcome, counts) THEN res
                     ELSE dist_add(res, next_state(ev, prev_state, outcome, counts),
                                   prev[prev_state] * prod_weight)
         IN fold_prev(ev, outcome, counts, prod_weight, prev,
                      todo \ {prev_state}, res2)

\* self._cache[cache_key] = result, on the cache the computation left.
cache_store(cache_key, r) ==
    [dist |-> r.dist, cache |-> r.cache @@ (cache_key :> r.dist)]

\* EvalPool._eval_internal, returning the distribution and the cache as
\* the call leaves it.  eval_product is its loop over itertools.product.
RECURSIVE eval_internal(_, _, _, _)
RECURSIVE eval_product(_, _, _, _, _, _, _)
eval_internal(ev, c, init, pools) ==
    LET cache_key == cache_key_of(init, pools)
    IN IF cache_key \in DOMAIN c
       THEN [dist |-> c[cache_key], cache |-> c]
       ELSE cache_store(cache_key,
                IF \A i \in 1..Len(pools) : pools[i] = None
                THEN [dist |-> dist_add(EmptyDist, init, 1), cache |-> c]
                ELSE LET outcome ==
                             MaxOf({max_outcome(pools[i][1].die) :
                                      i \in {j \in 1..Len(pools) : pools[j] # None}})
                         prod == product([i \in 1..Len(pools) |->
                                             iter_pool(outcome, pools[i])])
                     IN eval_product(ev, c, init, outcome, prod, 1, EmptyDist))

eval_product(ev, c, init, outcome, prod, j, res) ==
    IF j > Len(prod) THEN [dist |-> res, cache |-> c]
    ELSE LET p == prod[j]
             prev_pools == [i \in 1..Len(p) |-> p[i][1]]
             counts == [i \in 1..Len(p) |-> p[i][2]]
             prod_weight == ProdSeq([i \in 1..Len(p) |-> p[i][3]])
             prev == eval_internal(ev, c, init, prev_pools)
         IN eval_product(ev, prev.cache, init, outcome, prod, j + 1,
                         fold_prev(ev, outcome, counts, prod_weight, prev.dist,
                                   DOMAIN prev.dist, res))

\* The loop of eval over dist.items(): final_dist[outcome] += weight.
RECURSIVE final_dist(_, _, _, _)
final_dist(ev, dist, todo, res) ==
    IF todo = {} THEN res
    ELSE LET state == CHOOSE x \in todo : TRUE
         IN final_dist(ev, dist, todo \ {state},
                       dist_add(res, final_outcome(ev, state), dist[state]))

\* The die eval builds from the final states, and the cache afterwards.
eval_return(ev, r) ==
    [die |-> final_dist(ev, r.dist, DOMAIN r.dist, EmptyDist), cache |-> r.cache]

\* EvalPool.eval: the returned die and the cache afterwards.
eval(ev, c, pools) ==
    eval_return(ev, eval_internal(ev, c, initial_state(ev), pools))

(***************************************************************************)
(* BaseDie.keep / keep_highest / keep_lowest (hdroller/dice/base.py): the  *)
(* pool they build, summed by the shared SumPool instance.                 *)
(***************************************************************************)
keep_pool_int(die, num_dice, index) ==
    Pool(die, compute_count_dice_int(num_dice, index), None, None)

keep_pool_slice(die, num_dice, start, stop) ==
    Pool(die, compute_count_dice_slice(num_dice, start, stop), None, None)

\* As keep_highest_pool, with a slice that never stops before the end.
keep_highest_pool_nostop(die, num_dice, num_keep, num_drop) ==
    keep_pool_slice(die, num_dice, Some(-(num_keep + num_drop)), None)

keep_highest_pool(die, num_dice, num_keep, num_drop) ==
    LET start == Some(-(num_keep + num_drop))
        stop == IF num_drop > 0 THEN Some(-num_drop) ELSE None
    IN keep_pool_slice(die, num_dice, start, stop)

keep_lowest_pool(die, num_dice, num_keep, num_drop) ==
    LET start == IF num_drop > 0 THEN Some(num_drop) ELSE None
        stop == Some(num_keep + num_drop)
    IN keep_pool_slice(die, num_dice, start, stop)

(***************************************************************************)
(* Merging weighted sub-distributions (icepool/creation_args.py).  A       *)
(* sub-distribution (subdata) is a mapping outcome -> weight.              *)
(***************************************************************************)
\* math.gcd of two nonnegative integers
RECURSIVE gcd(_, _)
gcd(a, b) == IF b = 0 THEN a ELSE gcd(b, a % b)

\* math.gcd(*values): 0 for no values
RECURSIVE gcd_all(_)
gcd_all(s) == IF Len(s) = 0 THEN 0 ELSE gcd(s[1], gcd_all(Tail(s)))

\* math.lcm(*values): 1 for no values
RECURSIVE lcm_all(_)
lcm_all(s) ==
    IF Len(s) = 0 THEN 1
    ELSE LET rest == lcm_all(Tail(s))
         IN IF s[1] = 0 \/ rest = 0 THEN 0 ELSE (s[1] * rest) \div gcd(s[1], rest)

data_values(data) == [j \in 1..Cardinality(DOMAIN data) |-> data[SetToSeq(DOMAIN data)[j]]]

subdata_denominators(subdatas) ==
    [i \in 1..Len(subdatas) |-> denominator(subdatas[i])]

\* As merge_data, dividing denominator_prod by the subdata's denominator
\* before multiplying by the weight.
merge_data_divides_first(denominator_prod, subdatas, ws) ==
    LET ds == subdata_denominators(subdatas)
        factor(i) == IF ds[i] # 0 THEN (denominator_prod \div ds[i]) * ws[i] ELSE 0
    IN [outcome \in UNION {DOMAIN subdatas[i] : i \in 1..Len(subdatas)} |->
           SumSeq([i \in 1..Len(subdatas) |->
                      IF outcome \in DOMAIN subdatas[i]
                      THEN subdatas[i][outcome] * factor(i) ELSE 0])]

\* The loop shared by the merge functions: every subdata is scaled by
\* denominator_prod * w // subdata_denominator (0 for an empty subdata)
\* and added into data.
merge_data(denominator_prod, subdatas, ws) ==
    LET ds == subdata_denominators(subdatas)
        factor(i) == IF ds[i] # 0 THEN (denominator_prod * ws[i]) \div ds[i] ELSE 0
    IN [outcome \in UNION {DOMAIN subdatas[i] : i \in 1..Len(subdatas)} |->
           SumSeq([i \in 1..Len(subdatas) |->
                      IF outcome \in DOMAIN subdatas[i]
                      THEN subdatas[i][outcome] * factor(i) ELSE 0])]

positive(ds) == SelectSeq(ds, LAMBDA d : d > 0)

merge_weights_prod(subdatas, ws) ==
    merge_data(ProdSeq(positive(subdata_denominators(subdatas))), subdatas, ws)

\* As merge_weights_lcm, with the gcd of the denominators for their lcm.
merge_weights_lcm_gcd(subdatas, ws) ==
    merge_data(gcd_all(positive(subdata_denominators(subdatas))), subdatas, ws)

merge_weights_lcm(subdatas, ws) ==
    merge_data(lcm_all(positive(subdata_denominators(subdatas))), subdatas, ws)

\* As merge_weights_lcm_joint, multiplying each denominator by its gcd with
\* the weight instead of dividing by it.
merge_weights_lcm_joint_times(subdatas, ws) ==
    LET ds == subdata_denominators(subdatas)
        pos == SelectSeq([i \in 1..Len(ds) |-> i], LAMBDA i : ds[i] > 0)
    IN merge_data(lcm_all([j \in 1..Len(pos) |->
                              ds[pos[j]] * gcd(ds[pos[j]], ws[pos[j]])]),
                  subdatas, ws)

merge_weights_lcm_joint(subdatas, ws) ==
    LET ds == subdata_denominators(subdatas)
        pos == SelectSeq([i \in 1..Len(ds) |-> i], LAMBDA i : ds[i] > 0)
    IN merge_data(lcm_all([j \in 1..Len(pos) |->
                              ds[pos[j]] \div gcd(ds[pos[j]], ws[pos[j]])]),
                  subdatas, ws)

merge_weights_reduce(subdatas, ws) ==
    LET data == merge_weights_lcm_joint(subdatas, ws)
        g == gcd_all(data_values(data))
    IN IF g > 1 THEN [outcome \in DOMAIN data |-> data[outcome] \div g] ELSE data

\* merge_weights_funcs
DenominatorMethods == {"prod", "lcm", "lcm_joint", "reduce"}
merge_weights_funcs(method, subdatas, ws) ==
    CASE method = "prod" -> merge_weights_prod(subdatas, ws)
      [] method = "lcm" -> merge_weights_lcm(subdatas, ws)
      [] method = "lcm_joint" -> merge_weights_lcm_joint(subdatas, ws)
      [] method = "reduce" -> merge_weights_reduce(subdatas, ws)

\* BaseDie.reduce on the data of a die
reduce(data) ==
    LET g == gcd_all(data_values(data))
    IN IF g <= 1 THEN data ELSE [outcome \in DOMAIN data |-> data[outcome] \div g]

(***************************************************************************)
(* Decks (icepool/deck.py).  The cards are a sequence of <<outcome, dups>> *)
(* in ascending order of outcome.                                          *)
(***************************************************************************)
deck_dups(cards) == [i \in 1..Len(cards) |-> cards[i][2]]
deck_size(deck) == SumSeq(deck_dups(deck.cards))

\* Deck.__new__ raises ValueError for negative dups and when the hand
\* exceeds the deck.
Deck_raises(cards, hand_size) ==
    \/ \E i \in 1..Len(cards) : cards[i][2] < 0
    \/ hand_size > SumSeq(deck_dups(cards))

Deck(cards, hand_size) == [cards |-> cards, hand_size |-> hand_size]

\* Deck(outcomes, dups=, hand_size=): the deck, or ValueError.
DeckNew(cards, hand_size) ==
    IF Deck_raises(cards, hand_size) THEN Raises("ValueError")
    ELSE Deck(cards, hand_size)

deck_denominator(deck) == comb(deck_size(deck), deck.hand_size)

\* As deck_pop_min, without the lower clip of the count by the cards that
\* remain for the rest of the hand.
deck_pop_min_unclipped(deck, outcome) ==
    IF Len(deck.cards) = 0 \/ outcome # deck.cards[1][1]
    THEN << <<deck, 0, 1>> >>
    ELSE LET deck_count == deck.cards[1][2]
             max_count == Min2(deck_count, deck.hand_size)
         IN [j \in 1..(max_count + 1) |->
                <<Deck(Tail(deck.cards), deck.hand_size - (j - 1)), j - 1,
                  comb(deck_count, j - 1)>>]

\* As deck_pop_min, weighing a branch by the ways to pick the count out of
\* the hand.
deck_pop_min_hand_weight(deck, outcome) ==
    IF Len(deck.cards) = 0 \/ outcome # deck.cards[1][1]
    THEN << <<deck, 0, 1>> >>
    ELSE LET deck_count == deck.cards[1][2]
             min_count == Max2(0, deck_count + deck.hand_size - deck_size(deck))
             max_count == Min2(deck_count, deck.hand_size)
         IN [j \in 1..(max_count - min_count + 1) |->
                <<DeckNew(Tail(deck.cards), deck.hand_size - (min_count + j - 1)),
                  min_count + j - 1, comb(deck.hand_size, min_count + j - 1)>>]

\* Deck._pop_min: the sequence of (popped deck, count, weight).
deck_pop_min(deck, outcome) ==
    IF Len(deck.cards) = 0 \/ outcome # deck.cards[1][1]
    THEN << <<deck, 0, 1>> >>
    ELSE LET deck_count == deck.cards[1][2]
             min_count == Max2(0, deck_count + deck.hand_size - deck_size(deck))
             max_count == Min2(deck_count, deck.hand_size)
         IN [j \in 1..(max_count - min_count + 1) |->
                <<DeckNew(Tail(deck.cards), deck.hand_size - (min_count + j - 1)),
                  min_count + j - 1, comb(deck_count, min_count + j - 1)>>]

\* As deck_pop_max, without the lower clip of the count.
deck_pop_max_unclipped(deck, outcome) ==
    IF Len(deck.cards) = 0 \/ outcome # deck.cards[Len(deck.cards)][1]
    THEN << <<deck, 0, 1>> >>
    ELSE LET deck_count == deck.cards[Len(deck.cards)][2]
             max_count == Min2(deck_count, deck.hand_size)
         IN [j \in 1..(max_count + 1) |->
                <<DeckNew(SubSeq(deck.cards, 1, Len(deck.cards) - 1),
                          deck.hand_size - (j - 1)),
                  j - 1, comb(deck_count, j - 1)>>]

\* Deck._pop_max
deck_pop_max(deck, outcome) ==
    IF Len(deck.cards) = 0 \/ outcome # deck.cards[Len(deck.cards)][1]
    THEN << <<deck, 0, 1>> >>
    ELSE LET deck_count == deck.cards[Len(deck.cards)][2]
             min_count == Max2(0, deck_count + deck.hand_size - deck_size(deck))
             max_count == Min2(deck_count, deck.hand_size)
         IN [j \in 1..(max_count - min_count + 1) |->
                <<DeckNew(SubSeq(deck.cards, 1, Len(deck.cards) - 1),
                          deck.hand_size - (min_count + j - 1)),
                  min_count + j - 1, comb(deck_count, min_count + j - 1)>>]

(***************************************************************************)
(* Multiset expressions (icepool/expression/multiset_expression.py).  An   *)
(* expression is a tree [cls, args, constant, gen]; its leaves are the     *)
(* generators: pools of fixed outcomes and deals from a deck.              *)
(***************************************************************************)
ExprOutcomes == 1..4

Node(cls, args, constant) ==
    [cls |-> cls, args |-> args, constant |-> constant, gen |-> None]

\* icepool.Pool of fixed outcomes, given as outcome -> count
FixedPool(counts) == [cls |-> "Pool", args |-> <<>>, constant |-> 0, gen |-> Some(counts)]

\* deck.deal(): the deck as a generator
Deal(deck) == [cls |-> "Deck", args |-> <<>>, constant |-> 0, gen |-> Some(deck)]

__add__(self, other) == Node("DisjointUnionExpression", <<self, other>>, 0)
__radd__(self, other) == Node("DisjointUnionExpression", <<other, self>>, 0)
__sub__(self, other) == Node("DifferenceExpression", <<self, other>>, 0)

\* As __rsub__, with the operands in the order of __sub__.
__rsub__swapped(self, other) == Node("DifferenceExpression", <<self, other>>, 0)

__rsub__(self, other) == Node("DifferenceExpression", <<other, self>>, 0)
__and__(self, other) == Node("IntersectionExpression", <<self, other>>, 0)
__rand__(self, other) == Node("IntersectionExpression", <<other, self>>, 0)

\* As __or__, building the disjoint union of __add__.
__or__disjoint(self, other) == Node("DisjointUnionExpression", <<self, other>>, 0)

__or__(self, other) == Node("UnionExpression", <<self, other>>, 0)
__ror__(self, other) == Node("UnionExpression", <<other, self>>, 0)
__xor__(self, other) == Node("SymmetricDifferenceExpression", <<self, other>>, 0)
__rxor__(self, other) == Node("SymmetricDifferenceExpression", <<other, self>>, 0)

\* reduce(operator.or_, others, self)
RECURSIVE union(_, _)
union(self, others) ==
    IF Len(others) = 0 THEN self ELSE union(__or__(self, others[1]), Tail(others))

__mul__(self, other) == Node("MultiplyCountsExpression", <<self>>, other)
__rmul__(self, other) == Node("MultiplyCountsExpression", <<self>>, other)
__floordiv__(self, other) == Node("FloorDivCountsExpression", <<self>>, other)
filter_counts(self, min_count) == Node("FilterCountsExpression", <<self>>, min_count)

\* As unique, building the expression of filter_counts.
unique_filter(self, max_count) == Node("FilterCountsExpression", <<self>>, max_count)

unique(self, max_count) == Node("UniqueExpression", <<self>>, max_count)
unique_max_count == 1

\* The count each expression class emits for an outcome, from the counts of
\* its operands.
DisjointUnionExpression(a, b) == a + b
DifferenceExpression(a, b) == Max2(a - b, 0)
IntersectionExpression(a, b) == Min2(a, b)
UnionExpression(a, b) == Max2(a, b)
SymmetricDifferenceExpression(a, b) == IF a >= b THEN a - b ELSE b - a
MultiplyCountsExpression(c, constant) == c * constant
FloorDivCountsExpression(c, constant) == c \div constant
FilterCountsExpression(c, min_count) == IF c >= min_count THEN c ELSE 0
UniqueExpression(c, max_count) == Min2(c, max_count)

BinaryClasses ==
    {"DisjointUnionExpression", "DifferenceExpression", "IntersectionExpression",
     "UnionExpression", "SymmetricDifferenceExpression"}

binary_count(cls, a, b) ==
    CASE cls = "DisjointUnionExpression" -> DisjointUnionExpression(a, b)
      [] cls = "DifferenceExpression" -> DifferenceExpression(a, b)
      [] cls = "IntersectionExpression" -> IntersectionExpression(a, b)
      [] cls = "UnionExpression" -> UnionExpression(a, b)
      [] cls = "SymmetricDifferenceExpression" -> SymmetricDifferenceExpression(a, b)

adjust_count(cls, c, constant) ==
    CASE cls = "MultiplyCountsExpression" -> MultiplyCountsExpression(c, constant)
      [] cls = "FloorDivCountsExpression" -> FloorDivCountsExpression(c, constant)
      [] cls = "FilterCountsExpression" -> FilterCountsExpression(c, constant)
      [] cls = "UniqueExpression" -> UniqueExpression(c, constant)

\* A deal walked over the outcomes in ascending order: every path of
\* _pop_min branches, as <<count per outcome, product of branch weights>>.
RECURSIVE deal_walk(_, _, _, _)
deal_walk(deck, outcome, counts, w) ==
    IF outcome \notin ExprOutcomes THEN {<<counts, w>>}
    ELSE UNION {deal_walk(b[1], outcome + 1, [counts EXCEPT ![outcome] = b[2]], w * b[3]) :
                  b \in Range(deck_pop_min(deck, outcome))}

\* The counts a generator produces, with their weights.
leaf_dist(g) ==
    IF g.cls = "Pool" THEN (g.gen[1] :> 1)
    ELSE LET paths == deal_walk(g.gen[1], 1, [o \in ExprOutcomes |-> 0], 1)
         IN [c \in {q[1] : q \in paths} |-> (CHOOSE q \in paths : q[1] = c)[2]]

\* The counts an expression emits, with their weights: its generators are
\* independent and every node rewrites the counts outcome by outcome.
RECURSIVE expr_dist(_)
expr_dist(e) ==
    IF e.gen # None THEN leaf_dist(e)
    ELSE IF e.cls \in BinaryClasses
    THEN LET d1 == expr_dist(e.args[1])
             d2 == expr_dist(e.args[2])
             m(a, b) == [o \in ExprOutcomes |-> binary_count(e.cls, a[o], b[o])]
         IN [c \in {m(a, b) : a \in DOMAIN d1, b \in DOMAIN d2} |->
                dist_sum([q \in (DOMAIN d1) \X (DOMAIN d2) |-> d1[q[1]] * d2[q[2]]],
                         {q \in (DOMAIN d1) \X (DOMAIN d2) : m(q[1], q[2]) = c})]
    ELSE LET d1 == expr_dist(e.args[1])
             m(a) == [o \in ExprOutcomes |-> adjust_count(e.cls, a[o], e.constant)]
         IN [c \in {m(a) : a \in DOMAIN d1} |->
                dist_sum(d1, {a \in DOMAIN d1 : m(a) = c})]

\* ExpandEvaluator in ascending order: every outcome repeated count times.
RECURSIVE expand_counts(_, _)
expand_counts(counts, outcome) ==
    IF outcome \notin ExprOutcomes THEN <<>>
    ELSE [j \in 1..counts[outcome] |-> outcome] \o expand_counts(counts, outcome + 1)

\* expression.expand(Order.Ascending)
expand(e) ==
    LET d == expr_dist(e)
    IN [t \in {expand_counts(c, 1) : c \in DOMAIN d} |->
           dist_sum(d, {c \in DOMAIN d : expand_counts(c, 1) = t})]

(***************************************************************************)
(* Inputs of the model.                                                    *)
(***************************************************************************)
\* Every die over a non-empty subset of OutcomeSet with weights in WeightSet.
Dice ==
    UNION {{[j \in 1..Cardinality(S) |-> <<SetToSeq(S)[j], w[SetToSeq(S)[j]]>>] :
              w \in [S -> WeightSet]} : S \in (SUBSET OutcomeSet) \ {{}}}

PositiveDice == {d \in Dice : \A i \in 1..Len(d) : d[i][2] > 0}

\* The dice over all of OutcomeSet.
FullDice == {d \in Dice : Len(d) = Cardinality(OutcomeSet)}

CountSet == {0, 1}
CountTuples == UNION {[1..n -> CountSet] : n \in 0..MaxDice}

\* Caps for a pool of n dice: none, or one outcome per die.
CapChoices(n) ==
    {None} \cup {Some(t) : t \in {u \in [1..n -> OutcomeSet] :
                                    \A i \in 1..n - 1 : u[i] <= u[i + 1]}}

\* The standard die dn as a subdata.
standard_die(n) == [outcome \in 1..n |-> 1]

\* Sub-distributions over the outcomes 1, 2, the empty one included.
Subdatas == UNION {[S -> {1, 2}] : S \in SUBSET {1, 2}}

\* The arguments of the denominator tests of tests/creation_test.py.
TestSubdatas == <<standard_die(6), standard_die(8), standard_die(10), standard_die(12)>>
TestArgs ==
    {[subdatas |-> TestSubdatas, weights |-> <<4, 3, 2, 1>>],
     [subdatas |-> TestSubdatas, weights |-> <<3, 4, 5, 6>>]}

MergeArgs ==
    TestArgs \cup
    UNION {{[subdatas |-> sd, weights |-> w] :
              sd \in [1..n -> Subdatas], w \in [1..n -> {0, 1, 2}]} :
           n \in 0..MaxSources}

NoArgs == [subdatas |-> <<>>, weights |-> <<>>]

\* The multiset of a list of outcomes, as outcome -> count.
multiset(s) == [o \in ExprOutcomes |-> Cardinality({i \in 1..Len(s) : s[i] = o})]

\* The cards of a multiset: its outcomes with their dups, ascending.
cards_of(counts) ==
    LET os == SetToSeq({o \in ExprOutcomes : counts[o] > 0})
    IN [i \in 1..Len(os) |-> <<os[i], counts[os[i]]>>]

\* The operands of tests/generator_operator_test.py.
TestLeft == multiset(<<1, 2, 2, 3>>)
TestRight == multiset(<<1, 2, 4>>)

Multisets ==
    {c \in [ExprOutcomes -> 0..MaxCount] : c[3] = 0 /\ c[4] = 0} \cup {TestLeft, TestRight}

PoolOperands == {FixedPool(c) : c \in Multisets}

DeckMultisets ==
    {c \in [ExprOutcomes -> {0, 1}] : c[4] = 0} \cup {TestLeft, TestRight}

DealOperands ==
    UNION {{Deal(Deck(cards_of(c), hand_size)) :
              hand_size \in {h \in 0..5 : ~Deck_raises(cards_of(c), h)}} :
           c \in DeckMultisets}

BinaryOps == {"__add__", "__sub__", "__and__", "__or__", "__xor__"}
ReflectedOps == {"__radd__", "__rsub__", "__rand__", "__ror__", "__rxor__"}
TransformOps == {"__mul__", "__rmul__", "__floordiv__", "filter_counts", "unique"}

NoOperator == [op |-> "none", left |-> None, right |-> None, constant |-> 0]

\* No call made yet on the query side.
NoQuery == [op |-> "none"]

\* The values a die is queried at: its possible outcomes and one value
\* below and above them.
QueryOutcomes == 0..4

\* The dice pools are built from.
PoolDice ==
    {<<<<1, 1>>, <<2, 1>>, <<3, 1>>>>,
     <<<<1, 2>>, <<2, 0>>, <<3, 1>>>>,
     <<<<1, 0>>, <<2, 0>>, <<3, 1>>>>,
     <<<<2, 1>>, <<3, 2>>>>}

\* The sequences given to Pool(): counts and sorted caps of up to MaxPool dice.
SizeArgs == {None} \cup {Some(n) : n \in 0..MaxPool}
CountArgs == UNION {[1..n -> CountSet] : n \in 0..MaxPool}
CapArgs == {None} \cup UNION {CapChoices(n) \ {None} : n \in 0..MaxPool}

\* The dice of pools evaluated together: their outcomes differ, so that an
\* outcome of one pool can be missing from another.
IterDice ==
    PoolDice \cup {<<<<1, 1>>, <<3, 1>>>>, <<<<1, 1>>, <<2, 1>>>>}

\* The pools evaluated together, as Pool(die, count_dice=, max_outcomes=)
\* and Pool(die, min_outcomes=) build them.
IterPools ==
    {Pool(die, count_dice, None, None) : die \in IterDice, count_dice \in CountArgs}
    \cup {Pool(<<<<1, 1>>, <<2, 1>>, <<3, 1>>>>, <<1, 1>>, None, Some(<<2, 3>>)),
          Pool(<<<<1, 1>>, <<2, 1>>, <<3, 1>>>>, <<1, 1>>, Some(<<1, 2>>), None)}

(***************************************************************************)
(* BaseDie.reroll (hdroller/dice/base.py).  The result is the data handed  *)
(* to hdroller.dice.func.die, as a die of the same outcomes.               *)
(***************************************************************************)
\* The data of reroll for an integer max_depth.
reroll_data(die, reroll_outcomes, max_depth) ==
    LET total_reroll_weight ==
            SumSeq([i \in 1..Len(die) |->
                      IF die[i][1] \in reroll_outcomes THEN die[i][2] ELSE 0])
        rerollable_factor == Pow(total_reroll_weight, max_depth)
        stop_factor == Pow(total_weight(die), max_depth)
                       + Pow(total_reroll_weight, max_depth)
    IN [i \in 1..Len(die) |->
          <<die[i][1], IF die[i][1] \in reroll_outcomes THEN rerollable_factor * die[i][2]
                       ELSE stop_factor * die[i][2]>>]

\* die.reroll(*outcomes, max_depth=max_depth): the die, or None when no
\* outcome is left.
reroll(die, reroll_outcomes, max_depth) ==
    IF max_depth = None
    THEN LET data == SelectSeq(die, LAMBDA it : it[1] \notin reroll_outcomes)
         IN IF Len(data) = 0 THEN None ELSE Some(data)
    ELSE Some(reroll_data(die, reroll_outcomes, max_depth[1]))

\* The depths rerolled to.
RerollDepths == 0..3

(***************************************************************************)
(* MultiDie (hdroller/dice/multi.py): a die whose outcomes are tuples of   *)
(* ndim elements, as a mapping from outcome to weight and its ndim.        *)
(***************************************************************************)
MultiDie(data, ndim) == [data |-> data, ndim |-> ndim]

\* hdroller.die(data, ndim=ndim) on a mapping of tuples: the die when
\* every outcome has ndim elements; otherwise it may raise or build the
\* die as given.
die_of_data(data, ndim) ==
    IF \A outcome \in DOMAIN data : Len(outcome) = ndim
    THEN {MultiDie(data, ndim)}
    ELSE {MultiDie(data, ndim), Raises("ValueError")}

\* operator.add, operator.sub
operate(op, x, y) == IF op = "add" THEN x + y ELSE x - y

\* tuple(op(x, y) for x, y in zip(outcome_self, outcome_other))
zip_op(op, outcome_self, outcome_other) ==
    [k \in 1..Min2(Len(outcome_self), Len(outcome_other)) |->
        operate(op, outcome_self[k], outcome_other[k])]

\* The loop of MultiDie.binary_op over itertools.product of the items.
RECURSIVE binary_op_data(_, _, _, _, _)
binary_op_data(self, other, op, todo, data) ==
    IF todo = {} THEN data
    ELSE LET p == CHOOSE x \in todo : TRUE
         IN binary_op_data(self, other, op, todo \ {p},
                dist_add(data, zip_op(op, p[1], p[2]),
                         self.data[p[1]] * other.data[p[2]]))

\* MultiDie.binary_op: the results the call can have.
binary_op(self, other, op) ==
    die_of_data(binary_op_data(self, other, op,
                               (DOMAIN self.data) \X (DOMAIN other.data), EmptyDist),
                self.ndim)

\* The multivariate dice combined: one or two outcomes of 1..MaxNdim
\* elements 0 or 1, with weights 1 or 2.
MaxNdim == 2
MultiDice ==
    UNION {UNION {{MultiDie(w, ndim) : w \in [S -> {1, 2}]} :
                     S \in {T \in SUBSET [1..ndim -> {0, 1}] :
                               Cardinality(T) \in {1, 2}}} :
             ndim \in 1..MaxNdim}

(***************************************************************************)
(* ExpressionEvaluator (icepool/expression/evaluator.py): an evaluator     *)
(* wrapped with expressions that adjust the counts first.                  *)
(***************************************************************************)
\* The objects the name counts is bound to: the tuple of raw counts the
\* call collected, and the generator object that line 30 binds to it.
Tuple(items) == [type |-> "tuple", items |-> items]
Generator == [type |-> "generator", items |-> <<>>]

\* ExpressionEvaluator(*expressions, evaluator=evaluator); an expression
\* is the index of the raw count it passes on.
ExpressionEvaluator(expressions, evaluator) ==
    [expressions |-> expressions, evaluator |-> evaluator]

\* expression.evaluate_counts(outcome, counts) of a variable: the count
\* at its index; a value that is no tuple cannot be subscripted.
evaluate_counts(expression, outcome, counts) ==
    IF counts.type # "tuple" THEN Raises("TypeError") ELSE counts.items[expression]

\* The inner evaluator's next_state(state, outcome, *counts): a sum.
inner_next_state(state, outcome, counts) == state + outcome * SumSeq(counts)

\* The value of the name counts when the body of the generator expression
\* runs: the body runs when *counts unpacks the generator in line 32,
\* after line 30 has bound the name to the generator itself.
counts_in_body(counts) == Generator

\* The unpacking of the generator: the arguments handed to evaluate_counts
\* and what it returned, up to the first exception.
RECURSIVE unpack(_, _, _, _, _)
unpack(expressions, outcome, counts, i, done) ==
    IF i > Len(expressions) THEN done
    ELSE LET adjusted == evaluate_counts(expressions[i], outcome, counts)
             step == [seen |-> Append(done.seen, counts),
                      adjusted |-> IF adjusted = Raises("TypeError") THEN done.adjusted
                                   ELSE Append(done.adjusted, adjusted),
                      raised |-> adjusted = Raises("TypeError")]
         IN IF step.raised THEN step
            ELSE unpack(expressions, outcome, counts, i + 1, step)

\* ExpressionEvaluator.next_state: what each expression was handed, the
\* calls made on the inner evaluator, and the value returned or raised.
expression_next_state(self, state, outcome, counts) ==
    LET u == unpack(self.expressions, outcome, counts_in_body(Tuple(counts)), 1,
                    [seen |-> <<>>, adjusted |-> <<>>, raised |-> FALSE])
    IN IF u.raised
       THEN [seen |-> u.seen, inner_calls |-> <<>>, returned |-> Raises("TypeError")]
       ELSE [seen |-> u.seen, inner_calls |-> <<<<state, outcome, u.adjusted>>>>,
             returned |-> Some(inner_next_state(state, outcome, u.adjusted))]

(***************************************************************************)
(* KeepExpression (icepool/expression/keep.py): a node that keeps some of  *)
(* the sorted elements its inner expression emits.                         *)
(***************************************************************************)
\* The bound Python applies to a slice index i on a sequence of length n.
slice_index(i, n) == IF i < 0 THEN Max2(0, n + i) ELSE Min2(i, n)

\* s[:i] and s[i:]
slice_to(s, i) == SubSeq(s, 1, slice_index(i, Len(s)))
slice_from(s, i) == SubSeq(s, slice_index(i, Len(s)) + 1, Len(s))

\* The fields KeepExpression.__new__ stores.
KeepExpression(order, sorted_roll_counts) ==
    [order |-> order, sorted_roll_counts |-> sorted_roll_counts]

\* As keep_next_state, without the check of the incoming count.
keep_next_state_unchecked(self, state, inner) ==
    LET remaining == IF state = None THEN self.sorted_roll_counts ELSE state[1][1]
        inner_state == inner[1]
        count == inner[2]
    IN IF count > 0
       THEN IF self.order = "Ascending"
            THEN LET count2 == SumSeq(slice_to(remaining, count))
                 IN <<<<slice_from(remaining, count2), inner_state>>, count2>>
            ELSE LET count2 == SumSeq(slice_from(remaining, -count))
                 IN <<<<slice_to(remaining, -count2), inner_state>>, count2>>
       ELSE <<<<remaining, inner_state>>, count>>

\* KeepExpression.next_state; inner is what self._inner.next_state
\* returned, (inner_state, count).  The result is ((remaining,
\* inner_state), count), or RuntimeError.
keep_next_state(self, state, inner) ==
    LET remaining == IF state = None THEN self.sorted_roll_counts ELSE state[1][1]
        inner_state == inner[1]
        count == inner[2]
    IN IF count < 0 THEN Raises("RuntimeError")
       ELSE IF count > 0
       THEN IF self.order = "Ascending"
            THEN LET count2 == SumSeq(slice_to(remaining, count))
                 IN <<<<slice_from(remaining, count2), inner_state>>, count2>>
            ELSE LET count2 == SumSeq(slice_from(remaining, -count))
                 IN <<<<slice_to(remaining, -count2), inner_state>>, count2>>
       ELSE <<<<remaining, inner_state>>, count>>

\* The nodes folded: either order, up to MaxDice slots of 0..MaxCount.
KeepNodes ==
    {KeepExpression(order, r) :
        order \in {"Ascending", "Descending"},
        r \in UNION {[1..n -> 0..MaxCount] : n \in 0..MaxDice}}

\* The counts the inner expression emits.
InnerCounts == (-1)..MaxCount

\* The outcomes of a fold in the order of the node: the first, and the
\* one after a given outcome.
first_outcome(order) ==
    IF order = "Ascending" THEN MinOf(OutcomeSet) ELSE MaxOf(OutcomeSet)
following(order, outcome) ==
    IF order = "Ascending" THEN outcome + 1 ELSE outcome - 1

\* The cards decks are built from: some of the outcomes 1..3, each with
\* up to MaxCount dups.
DeckCards ==
    UNION {{[j \in 1..Cardinality(S) |-> <<SetToSeq(S)[j], d[SetToSeq(S)[j]]>>] :
              d \in [S -> 0..MaxCount]} : S \in SUBSET OutcomeSet}

NoCall == [op |-> "none", ev |-> "sum_pool",
           pool |-> Pool(<<>>, <<>>, None, None), sel |-> <<>>]

(***************************************************************************)
(* The state machine: calls on the shared evaluator instances.             *)
(***************************************************************************)
Init ==
    /\ cache = [ev \in Evaluators |-> <<>>]
    /\ call = NoCall
    /\ result = EmptyDist
    /\ ncalls = 0
    /\ m_args = NoArgs
    /\ m_out = [method \in DenominatorMethods |-> None]
    /\ x_call = NoOperator
    /\ x_expr = None
    /\ x_die = EmptyDist
    /\ q_call = NoQuery
    /\ q_out = None

\* evaluator.eval(pool)
DoEval(op, ev, pool, sel) ==
    \E r \in {eval(ev, cache[ev], <<Some(pool)>>)} :
       /\ cache' = [cache EXCEPT ![ev] = r.cache]
       /\ result' = r.die
       /\ call' = [op |-> op, ev |-> ev, pool |-> pool, sel |-> sel]
       /\ ncalls' = ncalls + 1
       /\ UNCHANGED <<mergeVars, exprVars, queryVars>>

\* ev(Pool(die, count_dice=count_dice, max_outcomes=caps))
Eval ==
    /\ ncalls < 1
    /\ \E ev \in Evaluators, die \in FullDice, count_dice \in CountTuples :
        \E caps \in CapChoices(Len(count_dice)) :
            /\ ~Pool_raises(die, None, Some(count_dice), None, caps)
            /\ DoEval("eval", ev, Pool(die, count_dice, None, caps), <<>>)

\* die.keep(num_dice, index)
Keep ==
    /\ ncalls < 1
    /\ \E die \in PositiveDice, num_dice \in 1..MaxDice :
        \E index \in (-num_dice)..(num_dice - 1) :
            DoEval("keep", "sum_pool", keep_pool_int(die, num_dice, index), <<index>>)

\* die.keep_highest(num_dice, num_keep, num_drop)
KeepHighest ==
    /\ ncalls < 1
    /\ \E die \in PositiveDice, num_dice \in 0..MaxDice, num_keep \in 0..MaxDice :
        \E num_drop \in 0..num_dice + 1 :
            DoEval("keep_highest", "sum_pool",
                   keep_highest_pool(die, num_dice, num_keep, num_drop),
                   <<num_keep, num_drop>>)

\* die.keep_lowest(num_dice, num_keep, num_drop)
KeepLowest ==
    /\ ncalls < 1
    /\ \E die \in PositiveDice, num_dice \in 0..MaxDice, num_keep \in 0..MaxDice :
        \E num_drop \in 0..num_dice + 1 :
            DoEval("keep_lowest", "sum_pool",
                   keep_lowest_pool(die, num_dice, num_keep, num_drop),
                   <<num_keep, num_drop>>)

Next == Eval \/ Keep \/ KeepHighest \/ KeepLowest

Spec == Init /\ [][Next]_vars

(***************************************************************************)
(* Repeated calls on the same evaluator instances, whose caches persist.   *)
(***************************************************************************)
CacheDice ==
    {<<<<1, 1>>, <<2, 1>>, <<3, 1>>>>,
     <<<<1, 2>>, <<2, 1>>, <<3, 1>>>>}
CacheCounts == {<<0, 1>>, <<1, 0>>, <<1, 1>>, <<0, 1, 1>>}

EvalAgain ==
    /\ ncalls < MaxCalls
    /\ \E ev \in Evaluators, die \in CacheDice, count_dice \in CacheCounts :
        DoEval("eval", ev, Pool(die, count_dice, None, None), <<>>)

NextCache == EvalAgain

SpecCache == Init /\ [][NextCache]_vars

(***************************************************************************)
(* Die construction with each denominator method, on the same arguments,   *)
(* in the order of tests/creation_test.py.                                 *)
(***************************************************************************)
Build(method) ==
    /\ m_out' = [m_out EXCEPT ![method] =
                    Some(merge_weights_funcs(method, m_args'.subdatas, m_args'.weights))]
    /\ UNCHANGED <<poolVars, exprVars, queryVars>>

BuildProd ==
    /\ m_out["prod"] = None
    /\ \E args \in MergeArgs : m_args' = args
    /\ Build("prod")

BuildLcm ==
    /\ m_out["prod"] # None /\ m_out["lcm"] = None
    /\ m_args' = m_args
    /\ Build("lcm")

BuildLcmJoint ==
    /\ m_out["lcm"] # None /\ m_out["lcm_joint"] = None
    /\ m_args' = m_args
    /\ Build("lcm_joint")

BuildReduce ==
    /\ m_out["lcm_joint"] # None /\ m_out["reduce"] = None
    /\ m_args' = m_args
    /\ Build("reduce")

NextMerge == BuildProd \/ BuildLcm \/ BuildLcmJoint \/ BuildReduce

SpecMerge == Init /\ [][NextMerge]_vars

(***************************************************************************)
(* Operators and methods applied to multiset expressions, then expanded.   *)
(***************************************************************************)
binary(op, self, other) ==
    CASE op = "__add__" -> __add__(self, other)
      [] op = "__sub__" -> __sub__(self, other)
      [] op = "__and__" -> __and__(self, other)
      [] op = "__or__" -> __or__(self, other)
      [] op = "__xor__" -> __xor__(self, other)
      [] op = "__radd__" -> __radd__(self, other)
      [] op = "__rsub__" -> __rsub__(self, other)
      [] op = "__rand__" -> __rand__(self, other)
      [] op = "__ror__" -> __ror__(self, other)
      [] op = "__rxor__" -> __rxor__(self, other)

transform(op, self, constant) ==
    CASE op = "__mul__" -> __mul__(self, constant)
      [] op = "__rmul__" -> __rmul__(self, constant)
      [] op = "__floordiv__" -> __floordiv__(self, constant)
      [] op = "filter_counts" -> filter_counts(self, constant)
      [] op = "unique" -> unique(self, constant)

Applied(op, left, right, constant, e) ==
    /\ x_call' = [op |-> op, left |-> left, right |-> right, constant |-> constant]
    /\ x_expr' = Some(e)
    /\ x_die' = expand(e)
    /\ UNCHANGED <<poolVars, mergeVars, queryVars>>

\* left op right, left an expression: left.op(right)
Operator ==
    /\ x_call.op = "none"
    /\ \E op \in BinaryOps, left \in PoolOperands \cup DealOperands,
           right \in PoolOperands \cup DealOperands :
            Applied(op, Some(left), Some(right), 0, binary(op, left, right))

\* left op right, left not an expression: right.rop(left)
Reflected ==
    /\ x_call.op = "none"
    /\ \E op \in ReflectedOps, left \in PoolOperands, right \in PoolOperands :
            Applied(op, Some(left), Some(right), 0, binary(op, right, left))

\* self.union(*others)
UnionMethod ==
    /\ x_call.op = "none"
    /\ \E self \in {FixedPool(TestLeft), FixedPool(TestRight)} :
            \E others \in UNION {[1..n -> {FixedPool(TestLeft), FixedPool(TestRight)}] : n \in 0..2} :
                Applied("union", Some(self), others, 0, union(self, others))

\* self * constant, constant * self, self // constant,
\* self.filter_counts(constant), self.unique(constant)
Transform ==
    /\ x_call.op = "none"
    /\ \E op \in TransformOps, self \in PoolOperands :
            \E constant \in (IF op = "__floordiv__" THEN 1 ELSE 0)..MaxConstant :
                Applied(op, Some(self), None, constant, transform(op, self, constant))

\* self.unique()
UniqueDefault ==
    /\ x_call.op = "none"
    /\ \E self \in PoolOperands :
            Applied("unique()", Some(self), None, unique_max_count,
                    unique(self, unique_max_count))

NextExpr == Operator \/ Reflected \/ UnionMethod \/ Transform \/ UniqueDefault

SpecExpr == Init /\ [][NextExpr]_vars

(***************************************************************************)
(* Weight queries on a die (hdroller/dice/base.py).                        *)
(***************************************************************************)
Returned(op, args, value) ==
    /\ q_call' = [op |-> op, args |-> args]
    /\ q_out' = Some(value)
    /\ UNCHANGED <<poolVars, mergeVars, exprVars>>

\* die.weight_le(outcome)
WeightLe ==
    /\ q_call.op = "none"
    /\ \E die \in Dice, outcome \in QueryOutcomes :
          Returned("weight_le", <<die, outcome>>, weight_le(die, outcome))

\* die.weight_lt(outcome)
WeightLt ==
    /\ q_call.op = "none"
    /\ \E die \in Dice, outcome \in QueryOutcomes :
          Returned("weight_lt", <<die, outcome>>, weight_lt(die, outcome))

\* die.weight_ge(outcome)
WeightGe ==
    /\ q_call.op = "none"
    /\ \E die \in Dice, outcome \in QueryOutcomes :
          Returned("weight_ge", <<die, outcome>>, weight_ge(die, outcome))

\* die.weight_gt(outcome)
WeightGt ==
    /\ q_call.op = "none"
    /\ \E die \in Dice, outcome \in QueryOutcomes :
          Returned("weight_gt", <<die, outcome>>, weight_gt(die, outcome))

NextQuery == WeightLe \/ WeightLt \/ WeightGe \/ WeightGt

SpecQuery == Init /\ [][NextQuery]_vars

(***************************************************************************)
(* Building pools and decomposing them (hdroller/pool.py).                 *)
(***************************************************************************)
IsPoolOut == q_out # None /\ ~IsRaise(q_out[1])

\* Pool(die, num_dice, count_dice, min_outcomes=, max_outcomes=)
Construct ==
    /\ q_call.op = "none"
    /\ \E die \in PoolDice, num_dice \in SizeArgs,
          count_dice \in {None} \cup {Some(t) : t \in CountArgs},
          min_outcomes \in CapArgs, max_outcomes \in CapArgs :
          Returned("Pool", <<die, num_dice, count_dice, min_outcomes, max_outcomes>>,
                   PoolFactory(die, num_dice, count_dice, min_outcomes, max_outcomes))

\* pool[count_dice]
GetItem ==
    /\ q_call.op = "Pool"
    /\ IsPoolOut
    /\ \E count_dice \in CountArgs :
          Returned("getitem", <<q_out[1], count_dice>>, getitem(q_out[1], count_dice))

\* pool.pop_max(), followed into one of its branches.
PopMax ==
    /\ q_call.op \in {"Pool", "getitem", "pop_max"}
    /\ IsPoolOut
    /\ \E b \in {pop_max(q_out[1])} :
          IF q_out[1].min_outcomes # None
          THEN Returned("pop_max", <<q_out[1], 0>>, b)
          ELSE \E j \in 1..Len(b) :
                  /\ q_call' = [op |-> "pop_max", args |-> <<q_out[1], j>>]
                  /\ q_out' = b[j][1]
                  /\ UNCHANGED <<poolVars, mergeVars, exprVars>>

NextPool == Construct \/ GetItem \/ PopMax

SpecPool == Init /\ [][NextPool]_vars

(***************************************************************************)
(* Building decks and decomposing them (icepool/deck.py).                  *)
(***************************************************************************)
\* Deck(outcomes, dups=dups, hand_size=hand_size)
DeckConstruct ==
    /\ q_call.op = "none"
    /\ \E cards \in DeckCards :
          \E hand_size \in 0..(SumSeq(deck_dups(cards)) + 1) :
              Returned("Deck", <<cards, hand_size>>, DeckNew(cards, hand_size))

\* One branch of a pop of a deck is followed.
Popped(op, outcome, b) ==
    \E j \in 1..Len(b) :
        /\ q_call' = [op |-> op, args |-> <<q_out[1], outcome, b[j][2]>>]
        /\ q_out' = Some(b[j][1])
        /\ UNCHANGED <<poolVars, mergeVars, exprVars>>

\* deck._pop_min(min_outcome), followed into one of its branches.
DeckPopMin ==
    /\ q_call.op \in {"Deck", "_pop_min"}
    /\ IsPoolOut
    /\ \E outcome \in OutcomeSet :
          Popped("_pop_min", outcome, deck_pop_min(q_out[1], outcome))

\* deck._pop_max(max_outcome), followed into one of its branches.
DeckPopMax ==
    /\ q_call.op \in {"Deck", "_pop_max"}
    /\ IsPoolOut
    /\ \E outcome \in OutcomeSet :
          Popped("_pop_max", outcome, deck_pop_max(q_out[1], outcome))

NextDeck == DeckConstruct \/ DeckPopMin \/ DeckPopMax

SpecDeck == Init /\ [][NextDeck]_vars

(***************************************************************************)
(* One path of _eval_internal over two pools: at each level the outcome    *)
(* is the greatest of the pools' maxima, one element of the product of     *)
(* the pools' branches is followed, and its counts go to next_state.       *)
(***************************************************************************)
\* ev.eval(left, right)
EvalPools ==
    /\ q_call.op = "none"
    /\ \E left \in IterPools, right \in IterPools :
          Returned("eval", <<<<left, right>>>>, <<Some(left), Some(right)>>)

\* One level of _eval_internal: pop_max raises for a pool with
\* min_outcomes, otherwise next_state gets the counts of one element of
\* the product and the walk goes on with its pools.
NextState ==
    /\ q_call.op \in {"eval", "next_state"}
    /\ \E i \in 1..Len(q_out[1]) : q_out[1][i] # None
    /\ \E pools \in {q_out[1]} :
        \E outcome \in {MaxOf({max_outcome(pools[i][1].die) :
                                 i \in {j \in 1..Len(pools) : pools[j] # None}})} :
          IF \E i \in 1..Len(pools) :
                /\ pools[i] # None
                /\ contains(pools[i][1].die, outcome)
                /\ pools[i][1].min_outcomes # None
          THEN Returned("pop_max", <<pools, outcome>>, Raises("ValueError"))
          ELSE \E prod \in {product([i \in 1..Len(pools) |->
                                        iter_pool(outcome, pools[i])])} :
               \E j \in 1..Len(prod) :
                  Returned("next_state",
                           <<pools, outcome,
                             [i \in 1..Len(pools) |-> prod[j][i][2]],
                             [i \in 1..Len(pools) |-> prod[j][i][3]]>>,
                           [i \in 1..Len(pools) |-> prod[j][i][1]])

NextIter == EvalPools \/ NextState

SpecIter == Init /\ [][NextIter]_vars

\* A level of _eval_internal that is not the base case: some pool is left.
Recursing ==
    /\ q_call.op \in {"eval", "next_state"}
    /\ \E i \in 1..Len(q_out[1]) : q_out[1][i] # None

\* A call that has been made runs on: a level that is not the base case
\* goes through its loop and makes its recursive calls.  This is
\* WF_vars(NextState) with the enabling condition of NextState written as
\* Recursing.
SpecIterFair ==
    SpecIter /\ ([]<>(~Recursing) \/ []<><<NextState>>_vars)

(***************************************************************************)
(* A fold through a KeepExpression: one next_state call per outcome, in    *)
(* the order of the node, each on the state the call before returned.      *)
(***************************************************************************)
\* KeepExpression(inner, sorted_roll_counts)
NewKeep ==
    /\ q_call.op = "none"
    /\ \E self \in KeepNodes :
          Returned("KeepExpression", <<self, None, 0, 0>>, <<None, 0>>)

\* self.next_state(state, outcome, bound_counts, counts), where the inner
\* expression has no state of its own and emits count.
KeepNextState ==
    /\ q_call.op \in {"KeepExpression", "keep_next_state"}
    /\ q_call.args[4] >= 0
    /\ \E self \in {q_call.args[1]}, state \in {q_out[1][1]}, count \in InnerCounts :
        \E outcome \in {IF q_call.op = "KeepExpression"
                         THEN first_outcome(self.order)
                         ELSE following(self.order, q_call.args[3])} :
          /\ outcome \in OutcomeSet
          /\ Returned("keep_next_state", <<self, state, outcome, count>>,
                      keep_next_state(self, IF state = None THEN None ELSE Some(state),
                                      <<None, count>>))

NextKeep == NewKeep \/ KeepNextState

SpecKeep == Init /\ [][NextKeep]_vars

(***************************************************************************)
(* Rerolls of a die.                                                       *)
(***************************************************************************)
\* die.reroll(*outcomes, max_depth=max_depth)
Reroll ==
    /\ q_call.op = "none"
    /\ \E die \in Dice, reroll_outcomes \in SUBSET OutcomeSet, max_depth \in RerollDepths :
          Returned("reroll", <<die, reroll_outcomes, Some(max_depth)>>,
                   reroll(die, reroll_outcomes, Some(max_depth)))

\* die.reroll(*outcomes)
RerollUnlimited ==
    /\ q_call.op = "none"
    /\ \E die \in Dice, reroll_outcomes \in SUBSET OutcomeSet :
          Returned("reroll", <<die, reroll_outcomes, None>>, reroll(die, reroll_outcomes, None))

NextReroll == Reroll \/ RerollUnlimited

SpecReroll == Init /\ [][NextReroll]_vars

(***************************************************************************)
(* Binary operators between multivariate dice.                             *)
(***************************************************************************)
\* self + other, self - other
BinaryOp ==
    /\ q_call.op = "none"
    /\ \E self \in MultiDice, other \in MultiDice, op \in {"add", "sub"} :
        \E out \in binary_op(self, other, op) :
            Returned("binary_op", <<self, other, op>>, out)

NextMulti == BinaryOp

SpecMulti == Init /\ [][NextMulti]_vars

(***************************************************************************)
(* A next_state call on an ExpressionEvaluator over two raw counts.        *)
(***************************************************************************)
\* ExpressionEvaluator(*expressions, evaluator=inner).next_state(state,
\* outcome, *counts)
ExpressionNextState ==
    /\ q_call.op = "none"
    /\ \E expressions \in UNION {[1..n -> 1..2] : n \in 0..2},
          state \in 0..1, outcome \in OutcomeSet, counts \in [1..2 -> 0..MaxCount] :
          Returned("expression_next_state",
                   <<ExpressionEvaluator(expressions, "inner"), state, outcome, counts>>,
                   expression_next_state(ExpressionEvaluator(expressions, "inner"),
                                         state, outcome, counts))

NextForward == ExpressionNextState

SpecForward == Init /\ [][NextForward]_vars

(***************************************************************************)
(* Properties.                                                             *)
(***************************************************************************)
dist_weight(dist, x) == IF x \in DOMAIN dist THEN dist[x] ELSE 0

\* Two distributions have the same probability mass function.
SamePmf(d1, d2) ==
    \A x \in DOMAIN d1 \cup DOMAIN d2 :
        dist_weight(d1, x) * denominator(d2) = dist_weight(d2, x) * denominator(d1)

\* The score of one joint roll, sorted ascending, as the brute force of
\* the keep tests computes it (Python indexing and slicing of the roll).
bf_score(op, sel, roll) ==
    LET n == Len(roll)
        srt == sorted(roll)
        picked(lo, hi) == SumSeq([j \in 1..Max2(hi - lo, 0) |-> srt[lo + j]])
    IN IF op = "keep"
       THEN srt[(IF sel[1] < 0 THEN sel[1] + n ELSE sel[1]) + 1]
       ELSE IF op = "keep_highest"
       THEN picked(slice_lo(n, Some(-(sel[1] + sel[2]))), slice_hi(n, Some(n - sel[2])))
       ELSE picked(slice_lo(n, Some(sel[2])), slice_hi(n, Some(sel[1] + sel[2])))

\* Brute-force enumeration of all joint rolls of num_dice dice: every roll
\* is scored and its weight (the product of the dice weights) accumulated.
RECURSIVE bf_enum(_, _, _, _, _, _, _)
RECURSIVE bf_each(_, _, _, _, _, _, _, _)
bf_enum(die, op, sel, togo, roll, w, acc) ==
    IF togo = 0 THEN dist_add(acc, bf_score(op, sel, roll), w)
    ELSE bf_each(die, op, sel, togo, roll, w, acc, 1)
bf_each(die, op, sel, togo, roll, w, acc, i) ==
    IF i > Len(die) THEN acc
    ELSE bf_each(die, op, sel, togo, roll, w,
                 bf_enum(die, op, sel, togo - 1, Append(roll, die[i][1]),
                         w * die[i][2], acc),
                 i + 1)

brute_force(die, num_dice, op, sel) ==
    bf_enum(die, op, sel, num_dice, <<>>, 1, EmptyDist)

KeepOps == {"keep", "keep_highest", "keep_lowest"}

available_weight(die, cap) ==
    SumSeq([i \in 1..Len(die) |-> IF die[i][1] <= cap THEN die[i][2] ELSE 0])

position_weights(pool) ==
    [i \in 1..num_dice_of(pool) |->
        IF pool.max_outcomes = None THEN total_weight(pool.die)
        ELSE available_weight(pool.die, pool.max_outcomes[1][i])]

\* C2: the denominator of the die returned by eval is the product, over
\* the die positions of the pool, of the weight available to the position,
\* whichever evaluator is used.
C2_DenominatorIsProduct ==
    call.op = "eval" =>
        denominator(result) = ProdSeq(position_weights(call.pool))

\* The pools an evaluation has reached: the pools of the cache keys.
pool_of_key(k) ==
    [die |-> k[1], count_dice |-> k[2], min_outcomes |-> k[3], max_outcomes |-> k[4]]
PoolsSeen ==
    UNION {{pool_of_key(k[2][1][1]) : k \in {q \in DOMAIN cache[ev] : q[2][1] # None}} :
             ev \in Evaluators}

\* The general case of _iter_pop_max: outcomes with weight remain below the
\* max outcome and some die is still counted.
GeneralCase(pool) ==
    /\ Len(pool.die) > 1
    /\ total_weight(die_pop_max(pool.die)[1]) > 0
    /\ \E i \in 1..num_dice_of(pool) : pool.count_dice[i] # 0

possible_dice(pool) ==
    Cardinality({i \in 1..num_dice_of(pool) :
                   max_outcomes_tuple(pool)[i] >= max_outcome(pool.die)})

branch_weights(pool) ==
    [j \in 1..Len(iter_pop_max(pool)) |-> iter_pop_max(pool)[j][3]]

C10_CacheByStructure ==
    call.op = "eval" =>
        result = eval(call.ev, <<>>, <<Some(call.pool)>>).die

\* A second call on an instance whose cache holds the entries of a call on
\* another pool over the same die.
C10_Witness ==
    /\ ncalls = 2
    /\ call.op = "eval"
    /\ call.ev = "sum_pool"
    /\ call.pool = Pool(<<<<1, 1>>, <<2, 1>>, <<3, 1>>>>, <<1, 0>>, None, None)
    /\ cache_key_of(0, <<Some(Pool(<<<<1, 1>>, <<2, 1>>, <<3, 1>>>>, <<0, 1>>, None, None))>>)
           \in DOMAIN cache["sum_pool"]
    /\ result = (1 :> 5) @@ (2 :> 3) @@ (3 :> 1)

merged(method) == m_out[method][1]

\* C4: the data merged by prod, lcm, lcm_joint and reduce differ only by a
\* common scale factor: divided by the gcd of their weights, all are the
\* same outcome -> weight mapping.
C4_MethodsAgreeReduced ==
    \A p \in DenominatorMethods, q \in DenominatorMethods :
        (m_out[p] # None /\ m_out[q] # None) => reduce(merged(p)) = reduce(merged(q))

\* The four methods applied to d6, d8, d10, d12 with weights 3, 4, 5, 6,
\* where prod, lcm and lcm_joint give three different mappings.
C4_Witness ==
    /\ m_args = [subdatas |-> TestSubdatas, weights |-> <<3, 4, 5, 6>>]
    /\ \A p \in DenominatorMethods : m_out[p] # None
    /\ merged("prod") # merged("lcm")
    /\ merged("lcm") # merged("lcm_joint")
    /\ reduce(merged("prod")) = merged("reduce")
    /\ denominator(merged("reduce")) > 1

\* C5: on the same arguments denominator(prod) >= denominator(lcm) >=
\* denominator(lcm_joint), and d6, d8, d10, d12 with weights 3, 4, 5, 6
\* merged by lcm_joint have denominator 36.
C5_DenominatorsMonotone ==
    /\ (m_out["prod"] # None /\ m_out["lcm"] # None) =>
           denominator(merged("prod")) >= denominator(merged("lcm"))
    /\ (m_out["lcm"] # None /\ m_out["lcm_joint"] # None) =>
           denominator(merged("lcm")) >= denominator(merged("lcm_joint"))
    /\ (m_out["lcm_joint"] # None
        /\ m_args = [subdatas |-> TestSubdatas, weights |-> <<3, 4, 5, 6>>]) =>
           denominator(merged("lcm_joint")) = 36

C5_Witness ==
    /\ m_args = [subdatas |-> TestSubdatas, weights |-> <<3, 4, 5, 6>>]
    /\ m_out["lcm_joint"] # None
    /\ denominator(merged("prod")) = 103680
    /\ denominator(merged("lcm")) = 2160
    /\ denominator(merged("lcm_joint")) = 36

\* The counts of a pool operand of the last call.
counts_of(x) == x[1].gen[1]
IsPool(x) == x # None /\ x[1].cls = "Pool"

\* A die with one outcome.
single(t) == (t :> 1)

claimed_count(op, a, b) ==
    CASE op \in {"__add__", "__radd__"} -> a + b
      [] op \in {"__sub__", "__rsub__"} -> IF a - b > 0 THEN a - b ELSE 0
      [] op \in {"__and__", "__rand__"} -> IF a <= b THEN a ELSE b
      [] op \in {"__or__", "__ror__"} -> IF a >= b THEN a ELSE b
      [] op \in {"__xor__", "__rxor__"} -> IF a >= b THEN a - b ELSE b - a

claimed_expansion(op) ==
    CASE op \in {"__add__", "__radd__"} -> <<1, 1, 2, 2, 2, 3, 4>>
      [] op \in {"__sub__", "__rsub__"} -> <<2, 3>>
      [] op \in {"__and__", "__rand__"} -> <<1, 2>>
      [] op \in {"__or__", "__ror__"} -> <<1, 2, 2, 3, 4>>
      [] op \in {"__xor__", "__rxor__"} -> <<2, 3, 4>>

\* C6: for pools A op B of fixed outcomes with counts a and b, + gives
\* a + b, - gives max(a - b, 0), & gives min(a, b), | gives max(a, b) and
\* ^ gives |a - b| for every outcome, also when the operator is reflected
\* (A op B evaluated as B.__rop__(A)); for [1,2,2,3] and [1,2,4] the
\* expansions are (1,1,2,2,2,3,4), (2,3), (1,2), (1,2,2,3,4) and (2,3,4).
C6_OperatorsOnCounts ==
    (x_call.op \in BinaryOps \cup ReflectedOps /\ IsPool(x_call.left) /\ IsPool(x_call.right)) =>
        LET a == counts_of(x_call.left)
            b == counts_of(x_call.right)
        IN /\ x_die = single(expand_counts(
                         [o \in ExprOutcomes |-> claimed_count(x_call.op, a[o], b[o])], 1))
           /\ (a = TestLeft /\ b = TestRight) => x_die = single(claimed_expansion(x_call.op))

\* [1,2,2,3] - Pool([1,2,4]), evaluated by __rsub__ of the pool.
C6_Witness ==
    /\ x_call.op = "__rsub__"
    /\ x_call.left = Some(FixedPool(TestLeft))
    /\ x_call.right = Some(FixedPool(TestRight))
    /\ x_expr[1].cls = "DifferenceExpression"
    /\ x_die = single(<<2, 3>>)

TestOperands ==
    /\ x_call.op \in BinaryOps \cup {"union"}
    /\ x_call.left = Some(FixedPool(TestLeft))
    /\ x_call.right = Some(FixedPool(TestRight))

\* C7 as stated: union (the | operator) of [1,2,2,3] and [1,2,4] expands
\* to (1,1,2,2,2,3,4).
C7_UnionExpandsToSum ==
    (TestOperands /\ x_call.op \in {"__or__", "union"}) =>
        x_die = single(<<1, 1, 2, 2, 2, 3, 4>>)

\* C7 as amended: union (the | operator) of [1,2,2,3] and [1,2,4] expands
\* to (1,2,2,3,4); intersection, difference and symmetric difference
\* expand to (1,2), (2,3) and (2,3,4); (1,1,2,2,2,3,4) is the expansion of
\* the disjoint sum +.
C7_UnionExpandsToMax ==
    TestOperands =>
        x_die = single(CASE x_call.op \in {"__or__", "union"} -> <<1, 2, 2, 3, 4>>
                         [] x_call.op = "__and__" -> <<1, 2>>
                         [] x_call.op = "__sub__" -> <<2, 3>>
                         [] x_call.op = "__xor__" -> <<2, 3, 4>>
                         [] x_call.op = "__add__" -> <<1, 1, 2, 2, 2, 3, 4>>)

\* Pool([1,2,2,3]).union([1,2,4])
C7_Witness ==
    /\ TestOperands
    /\ x_call.op = "union"
    /\ x_expr[1].cls = "UnionExpression"
    /\ x_die = single(<<1, 2, 2, 3, 4>>)

deck_of(x) == x[1].gen[1]
IsFullDeal(x) ==
    x # None /\ x[1].cls = "Deck" /\ deck_of(x).hand_size = deck_size(deck_of(x))

dups_of(deck, outcome) ==
    SumSeq([i \in 1..Len(deck.cards) |->
               IF deck.cards[i][1] = outcome THEN deck.cards[i][2] ELSE 0])

\* Walking the deck upwards (downwards) from the outcome, _pop_min
\* (_pop_max) yields one branch of weight 1 dealing every card of it.
RECURSIVE single_branches_min(_, _)
single_branches_min(deck, outcome) ==
    outcome \in ExprOutcomes =>
        LET b == deck_pop_min(deck, outcome)
        IN /\ Len(b) = 1
           /\ b[1][2] = dups_of(deck, outcome)
           /\ b[1][3] = 1
           /\ single_branches_min(b[1][1], outcome + 1)

RECURSIVE single_branches_max(_, _)
single_branches_max(deck, outcome) ==
    outcome \in ExprOutcomes =>
        LET b == deck_pop_max(deck, outcome)
        IN /\ Len(b) = 1
           /\ b[1][2] = dups_of(deck, outcome)
           /\ b[1][3] = 1
           /\ single_branches_max(b[1][1], outcome - 1)

pool_of_deck(deck) == FixedPool([o \in ExprOutcomes |-> dups_of(deck, o)])

\* C8: dealing all cards of a deck yields, outcome by outcome, a single
\* branch of weight 1 whose count is the dups of the outcome, and +, -, &,
\* | and ^ over two full deals expand to the same die as over the pools of
\* the same multisets.
C8_FullDealIsPool ==
    (x_call.op \in BinaryOps /\ IsFullDeal(x_call.left) /\ IsFullDeal(x_call.right)) =>
        LET l == deck_of(x_call.left)
            r == deck_of(x_call.right)
        IN /\ single_branches_min(l, 1) /\ single_branches_min(r, 1)
           /\ single_branches_max(l, 4) /\ single_branches_max(r, 4)
           /\ x_die = expand(binary(x_call.op, pool_of_deck(l), pool_of_deck(r)))

\* Deck([1,2,2,3]).deal(4) - Deck([1,2,4]).deal(3)
C8_Witness ==
    /\ x_call.op = "__sub__"
    /\ x_call.left = Some(Deal(Deck(cards_of(TestLeft), 4)))
    /\ x_call.right = Some(Deal(Deck(cards_of(TestRight), 3)))
    /\ x_die = single(<<2, 3>>)

claimed_transform(op, c, k) ==
    CASE op \in {"__mul__", "__rmul__"} -> c * k
      [] op = "__floordiv__" -> c \div k
      [] op = "filter_counts" -> IF c >= k THEN c ELSE 0
      [] op = "unique" -> IF c <= k THEN c ELSE k
      [] op = "unique()" -> IF c <= 1 THEN c ELSE 1

\* C9: for a pool of fixed outcomes with counts c, * k emits c * k, // k
\* emits floor(c / k), filter_counts(m) emits c if c >= m and 0 otherwise,
\* unique(m) emits min(c, m) and unique() emits min(c, 1); for [1,2,2,3]
\* the expansions of * 2, // 2, filter_counts(2) and unique() are
\* (1,1,2,2,2,2,3,3), (2), (2,2) and (1,2,3).
C9_ScalarTransforms ==
    (x_call.op \in TransformOps \cup {"unique()"}) =>
        LET c == counts_of(x_call.left)
            k == x_call.constant
        IN /\ x_die = single(expand_counts(
                         [o \in ExprOutcomes |-> claimed_transform(x_call.op, c[o], k)], 1))
           /\ (c = TestLeft /\ x_call.op = "__mul__" /\ k = 2) =>
                  x_die = single(<<1, 1, 2, 2, 2, 2, 3, 3>>)
           /\ (c = TestLeft /\ x_call.op = "__floordiv__" /\ k = 2) => x_die = single(<<2>>)
           /\ (c = TestLeft /\ x_call.op = "filter_counts" /\ k = 2) => x_die = single(<<2, 2>>)
           /\ (c = TestLeft /\ x_call.op = "unique()") => x_die = single(<<1, 2, 3>>)

\* Pool([1,2,2,3]).unique()
C9_Witness ==
    /\ x_call.op = "unique()"
    /\ x_call.left = Some(FixedPool(TestLeft))
    /\ x_expr[1].cls = "UniqueExpression"
    /\ x_expr[1].constant = 1
    /\ x_die = single(<<1, 2, 3>>)

\* The weight of the outcomes of a die that satisfy a comparison with x.
weight_where(die, keep(_)) ==
    SumSeq([i \in 1..Len(die) |-> IF keep(die[i][1]) THEN die[i][2] ELSE 0])

\* C11: weight_le(x) is the sum of the weights of the outcomes <= x and
\* weight_lt(x) the sum of the weights of the outcomes < x, for every die
\* and every x, an outcome of the die or not.
C11_WeightLeLt ==
    /\ q_call.op = "weight_le" =>
          q_out[1] = weight_where(q_call.args[1], LAMBDA o : o <= q_call.args[2])
    /\ q_call.op = "weight_lt" =>
          q_out[1] = weight_where(q_call.args[1], LAMBDA o : o < q_call.args[2])

\* C12: weight_ge(x) is the sum of the weights of the outcomes >= x and
\* weight_gt(x) the sum of the weights of the outcomes > x, for every die
\* and every x, 0 above the maximum outcome.
C12_WeightGeGt ==
    /\ q_call.op = "weight_ge" =>
          q_out[1] = weight_where(q_call.args[1], LAMBDA o : o >= q_call.args[2])
    /\ q_call.op = "weight_gt" =>
          q_out[1] = weight_where(q_call.args[1], LAMBDA o : o > q_call.args[2])

PoolOps == {"Pool", "getitem", "pop_max"}

\* The caps of a pool are in order: at most one side, one cap per die.
caps_in_order(pool) ==
    /\ pool.min_outcomes = None \/ pool.max_outcomes = None
    /\ pool.min_outcomes # None => Len(pool.min_outcomes[1]) = Len(pool.count_dice)
    /\ pool.max_outcomes # None => Len(pool.max_outcomes[1]) = Len(pool.count_dice)

\* C13: every pool returned by Pool(), by [] or as the reduced pool of a
\* branch of pop_max has caps on at most one side, one per die, and
\* building the reduced pools of pop_max never raises.
C13_PoolCapsInOrder ==
    q_call.op \in PoolOps =>
        /\ IsPoolOut => caps_in_order(q_out[1])
        /\ (q_call.op = "pop_max" /\ q_call.args[1].min_outcomes = None) =>
              (q_out = None \/ ~IsRaise(q_out[1]))

\* A branch of pop_max on a capped pool of two dice that leaves a pool of
\* two dice with caps.
C13_Witness ==
    /\ q_call.op = "pop_max"
    /\ q_call.args[1].max_outcomes # None
    /\ IsPoolOut
    /\ Len(q_out[1].count_dice) = 2
    /\ q_out[1].max_outcomes # None

\* Both caps are given to Pool() and the sizes given agree.
BothCapsGiven ==
    /\ q_call.op = "Pool"
    /\ q_call.args[4] # None /\ q_call.args[5] # None
    /\ LET a == q_call.args
       IN \A n \in (IF a[2] = None THEN {} ELSE {a[2][1]})
                   \cup (IF a[3] = None THEN {} ELSE {Len(a[3][1])})
                   \cup {Len(a[4][1])} :
             n = Len(a[5][1])

\* Some cap of each side limits the die.
BothCapsLimit ==
    LET a == q_call.args
    IN /\ Len(a[5][1]) > 0
       /\ \E i \in 1..Len(a[4][1]) : a[4][1][i] > min_outcome(a[1])
       /\ \E i \in 1..Len(a[5][1]) : a[5][1][i] < max_outcome(a[1])

\* C14 as stated: Pool() raises ValueError whenever both min_outcomes and
\* max_outcomes are given.
C14_BothCapsRaise ==
    (q_call.op = "Pool" /\ q_call.args[4] # None /\ q_call.args[5] # None) =>
        q_out = Some(Raises("ValueError"))

\* C14 as amended: with both caps given (and sizes that agree) Pool()
\* raises ValueError exactly when both sides limit the die; caps that do
\* not limit the die are dropped and the pool is returned.
C14_BothLimitsRaise ==
    BothCapsGiven =>
        IF BothCapsLimit THEN q_out = Some(Raises("ValueError"))
        ELSE IsPoolOut /\ caps_in_order(q_out[1])

\* Pool() given a min cap and a max cap that both limit the die.
C14_Witness ==
    /\ BothCapsGiven
    /\ BothCapsLimit
    /\ q_call.args[1] = <<<<1, 1>>, <<2, 1>>, <<3, 1>>>>
    /\ q_call.args[4] = Some(<<1, 2>>)
    /\ q_call.args[5] = Some(<<2, 3>>)
    /\ q_out = Some(Raises("ValueError"))

\* C15: Deck() raises ValueError when hand_size exceeds the number of
\* cards, and every deck built by _pop_min / _pop_max from a deck with
\* 0 <= hand_size <= deck_size is built without raising and again has
\* 0 <= hand_size <= deck_size.
C15_DeckHandsFit ==
    /\ q_call.op = "Deck" =>
          (q_out = Some(Raises("ValueError")))
              = (q_call.args[2] > SumSeq(deck_dups(q_call.args[1])))
    /\ q_call.op \in {"Deck", "_pop_min", "_pop_max"} =>
          (IsPoolOut =>
              (0 <= q_out[1].hand_size /\ q_out[1].hand_size <= deck_size(q_out[1])))
    /\ q_call.op \in {"_pop_min", "_pop_max"} => IsPoolOut

\* A pop of the lowest outcome of a deck of four cards dealing two, in
\* the branch where one card of the outcome is dealt.
C15_Witness ==
    /\ q_call.op = "_pop_min"
    /\ q_call.args[1] = Deck(<<<<1, 2>>, <<2, 2>>>>, 2)
    /\ q_call.args[2] = 1
    /\ q_call.args[3] = 1
    /\ q_out = Some(Deck(<<<<2, 2>>>>, 1))

\* C16: at each outcome processed in an evaluation over several pools,
\* the count next_state gets for a pool is None exactly when the pool is
\* exhausted or the outcome is not an outcome of its die, and then the
\* pool is carried on unchanged with weight 1; a pool whose die has the
\* outcome, be it with zero weight, gets an integer count.
C16_NoneCountIffAbsent ==
    q_call.op = "next_state" =>
        \A i \in 1..Len(q_call.args[1]) :
            LET pool == q_call.args[1][i]
                outcome == q_call.args[2]
                count == q_call.args[3][i]
                factor == q_call.args[4][i]
                absent == \/ pool = None
                          \/ outcome \notin {pool[1].die[k][1] : k \in 1..Len(pool[1].die)}
            IN /\ (count = None) = absent
               /\ absent => (q_out[1][i] = pool /\ factor = 1)
               /\ ~absent => count[1] \in Int

\* A level at outcome 2 where the left pool's die has the outcome with
\* zero weight and gets the count 0, and the right pool's die {1, 3}
\* lacks the outcome and gets None.
C16_Witness ==
    /\ q_call.op = "next_state"
    /\ q_call.args[2] = 2
    /\ q_call.args[1][1] # None
    /\ q_call.args[1][1][1].die = <<<<1, 2>>, <<2, 0>>>>
    /\ q_call.args[1][2] # None
    /\ q_call.args[1][2][1].die = <<<<1, 1>>>>
    /\ q_call.args[3] = <<Some(0), None>>
    /\ q_out[1][2] = q_call.args[1][2]

\* C17: KeepExpression.next_state raises RuntimeError whenever the inner
\* expression emits a negative count, whatever the state, the outcome and
\* the order, and returns no state and no count.
C17_NegativeCountRaises ==
    (q_call.op = "keep_next_state" /\ q_call.args[4] < 0) =>
        q_out = Some(Raises("RuntimeError"))

\* A negative count arriving at a descending node in the middle of a
\* fold, after a call that returned a state.
C17_Witness ==
    /\ q_call.op = "keep_next_state"
    /\ q_call.args[1] = KeepExpression("Descending", <<1, 1>>)
    /\ q_call.args[2] = <<<<1>>, None>>
    /\ q_call.args[3] = 2
    /\ q_call.args[4] = -1
    /\ q_out = Some(Raises("RuntimeError"))

\* C20: a next_state call with an incoming count c > 0 removes exactly
\* min(c, len(remaining)) slots from the budget, the first ones when the
\* order is Ascending and the last ones when Descending, and emits the sum
\* of the removed slots; a call with c = 0 leaves the budget as it is and
\* emits 0.
C20_KeepConsumesSlots ==
    (q_call.op = "keep_next_state" /\ q_call.args[4] >= 0) =>
        LET self == q_call.args[1]
            remaining == IF q_call.args[2] = None THEN self.sorted_roll_counts
                         ELSE q_call.args[2][1]
            n == Len(remaining)
            k == Min2(q_call.args[4], n)
            removed == IF self.order = "Ascending" THEN SubSeq(remaining, 1, k)
                       ELSE SubSeq(remaining, n - k + 1, n)
            kept == IF self.order = "Ascending" THEN SubSeq(remaining, k + 1, n)
                    ELSE SubSeq(remaining, 1, n - k)
        IN /\ q_out[1][1][1] = kept
           /\ q_out[1][2] = SumSeq(removed)

\* The weight C18 gives an outcome of weight w after up to d rerolls, with
\* T the total weight and R the weight of the rerolled outcomes.
RECURSIVE stop_sum(_, _, _, _)
stop_sum(R, T, d, i) ==
    IF i > d THEN 0 ELSE Pow(R, i) * Pow(T, d - i) + stop_sum(R, T, d, i + 1)

\* C18: die.reroll(*outcomes, max_depth=d) weighs a non-rerolled outcome
\* of weight w in proportion to w * sum_{i=0..d} R^i * T^(d-i) and a
\* rerolled outcome in proportion to w * R^d, with T the total weight and
\* R the weight of the rerolled outcomes; max_depth=0 leaves the
\* distribution as it is.
C18_RerollDistribution ==
    (q_call.op = "reroll" /\ q_call.args[3] # None) =>
        LET die == q_call.args[1]
            reroll_outcomes == q_call.args[2]
            d == q_call.args[3][1]
            T == total_weight(die)
            R == SumSeq([i \in 1..Len(die) |->
                           IF die[i][1] \in reroll_outcomes THEN die[i][2] ELSE 0])
            claimed == [i \in 1..Len(die) |->
                          IF die[i][1] \in reroll_outcomes THEN die[i][2] * Pow(R, d)
                          ELSE die[i][2] * stop_sum(R, T, d, 0)]
            rerolled == q_out[1][1]
        IN /\ Len(rerolled) = Len(die)
           /\ \A i \in 1..Len(die) : rerolled[i][1] = die[i][1]
           /\ \A i, j \in 1..Len(die) :
                 rerolled[i][2] * claimed[j] = rerolled[j][2] * claimed[i]

\* C19: a binary operation between two dice whose outcomes differ in
\* their number of dimensions raises ValueError; no die is built from
\* truncated outcome tuples.
C19_MismatchedNdimRaises ==
    (q_call.op = "binary_op" /\ q_call.args[1].ndim # q_call.args[2].ndim) =>
        q_out = Some(Raises("ValueError"))

\* The pool pop_max was last called on, when the call did not raise.
Popping == q_call.op = "pop_max" /\ q_call.args[1].min_outcomes = None

\* C21: when every entry of count_dice is 0 and the popped die still has
\* positive total weight, pop_max yields one branch: a pool of zero dice
\* over the die without its max outcome, count 0, and as weight the
\* product over the positions of the die's weight at or below the cap of
\* the position.
C21_ZeroCountsCollapse ==
    Popping =>
        LET pool == q_call.args[1]
            popped_die == die_pop_max(pool.die)[1]
            caps == max_outcomes_tuple(pool)
            b == pop_max(pool)
        IN ((\A i \in 1..num_dice_of(pool) : pool.count_dice[i] = 0)
            /\ Len(popped_die) > 0 /\ total_weight(popped_die) > 0) =>
               /\ Len(b) = 1
               /\ b[1][1] = Some(Pool(popped_die, <<>>, None, None))
               /\ b[1][2] = 0
               /\ b[1][3] = ProdSeq([i \in 1..Len(caps) |->
                                       weight_where(pool.die, LAMBDA o : o <= caps[i])])

\* The last k entries of a tuple, and the tuple without them.
last_entries(t, k) == SubSeq(t, Len(t) - k + 1, Len(t))
without_last(t, k) == SubSeq(t, 1, Len(t) - k)

\* The general case of pop_max: a max outcome of positive weight, outcomes
\* of positive weight below it, and a count_dice entry that is not 0.
GeneralPop(pool) ==
    /\ Len(die_pop_max(pool.die)[1]) > 0
    /\ total_weight(die_pop_max(pool.die)[1]) > 0
    /\ \E i \in 1..num_dice_of(pool) : pool.count_dice[i] # 0
    /\ die_pop_max(pool.die)[3] > 0

\* C22: in the general case of pop_max the branch in which k dice rolled
\* the max outcome, k = 0..num_possible_dice, has as count the sum of the
\* last k entries of count_dice, and its pool has the count_dice of the
\* original without its last k entries, over the die with only its max
\* outcome removed.
C22_CountIsSelectorSum ==
    (Popping /\ GeneralPop(q_call.args[1])) =>
        LET pool == q_call.args[1]
            b == pop_max(pool)
        IN /\ Len(b) = possible_dice(pool) + 1
           /\ \A j \in 1..Len(b) :
                 /\ b[j][2] = SumSeq(last_entries(pool.count_dice, j - 1))
                 /\ b[j][1] # None
                 /\ b[j][1][1].count_dice = without_last(pool.count_dice, j - 1)
                 /\ b[j][1][1].die = SubSeq(pool.die, 1, Len(pool.die) - 1)

\* Two capped dice selected <<1, 0>> over a die of three outcomes: the
\* branch where one die rolled the max outcome has been followed, and its
\* count is the selector 0 of the highest position.
C22_Witness ==
    /\ Popping
    /\ GeneralPop(q_call.args[1])
    /\ q_call.args[1].count_dice = <<1, 0>>
    /\ q_call.args[1].max_outcomes = Some(<<2, 3>>)
    /\ q_call.args[2] = 2
    /\ pop_max(q_call.args[1])[2][2] = 0
    /\ q_out # None
    /\ q_out[1].count_dice = <<1>>

C24_ForwardsAdjustedCounts ==
    q_call.op = "expression_next_state" =>
        LET self == q_call.args[1]
            state == q_call.args[2]
            outcome == q_call.args[3]
            counts == q_call.args[4]
            n == Len(self.expressions)
        IN /\ q_out[1].seen = [i \in 1..n |-> Tuple(counts)]
           /\ q_out[1].inner_calls =
                 <<<<state, outcome, [i \in 1..n |-> counts[self.expressions[i]]]>>>>

\* The common multiplier L of a merge policy on the last arguments: the
\* product of the nonzero denominators, their lcm, or the lcm of each
\* nonzero denominator divided by its gcd with the weight.
multiplier(method) ==
    LET ds == subdata_denominators(m_args.subdatas)
        pos == SelectSeq([i \in 1..Len(ds) |-> i], LAMBDA i : ds[i] # 0)
    IN CASE method = "prod" -> ProdSeq([j \in 1..Len(pos) |-> ds[pos[j]]])
         [] method = "lcm" -> lcm_all([j \in 1..Len(pos) |-> ds[pos[j]]])
         [] method = "lcm_joint" ->
                lcm_all([j \in 1..Len(pos) |->
                           ds[pos[j]] \div gcd(ds[pos[j]], m_args.weights[pos[j]])])

\* C25: for prod, lcm and lcm_joint the merged weight of an outcome o is
\* L * sum_i w_i * weight_i(o) / d_i over the sources with nonzero
\* denominator d_i, L being the multiplier of the policy: L * w_i is a
\* multiple of d_i, so no division truncates, source i contributes L * w_i
\* to the total, and an empty source contributes nothing.
C25_MergeIsExact ==
    \A method \in {"prod", "lcm", "lcm_joint"} :
        m_out[method] # None =>
            LET subdatas == m_args.subdatas
                ws == m_args.weights
                ds == subdata_denominators(subdatas)
                L == multiplier(method)
                D == ProdSeq([i \in 1..Len(ds) |-> IF ds[i] # 0 THEN ds[i] ELSE 1])
            IN /\ \A i \in 1..Len(ds) : ds[i] # 0 => (L * ws[i]) % ds[i] = 0
               /\ DOMAIN merged(method) = UNION {DOMAIN subdatas[i] : i \in 1..Len(subdatas)}
               /\ \A o \in DOMAIN merged(method) :
                     merged(method)[o] * D =
                         SumSeq([i \in 1..Len(ds) |->
                                   IF ds[i] # 0
                                   THEN L * ws[i] * dist_weight(subdatas[i], o) * (D \div ds[i])
                                   ELSE 0])
               /\ denominator(merged(method)) =
                     SumSeq([i \in 1..Len(ds) |-> IF ds[i] # 0 THEN L * ws[i] ELSE 0])

\* lcm_joint on d6, d8, d10, d12 with weights 3, 4, 5, 6, where L = 2 is
\* no multiple of any denominator and every L * w_i / d_i is 1.
C25_Witness ==
    /\ m_args = [subdatas |-> TestSubdatas, weights |-> <<3, 4, 5, 6>>]
    /\ m_out["lcm_joint"] # None
    /\ multiplier("lcm_joint") = 2
    /\ merged("lcm_joint")[1] = 4
    /\ merged("lcm_joint")[12] = 1

\* The number of ways to choose k of n things, by counting them.
choose(n, k) == Cardinality({S \in SUBSET (1..n) : Cardinality(S) = k})

\* The branches C26 gives a pop of an outcome with g copies: one per
\* k = max(0, g + hand_size - deck_size) .. min(g, hand_size), of weight
\* C(g, k), leaving the other cards and a hand of hand_size - k.
claimed_pop(deck, g, rest) ==
    LET lo == Max2(0, g + deck.hand_size - deck_size(deck))
        hi == Min2(g, deck.hand_size)
    IN [j \in 1..(hi - lo + 1) |->
          <<Deck(rest, deck.hand_size - (lo + j - 1)), lo + j - 1, choose(g, lo + j - 1)>>]

\* The complete pop sequences of a deck from its lowest outcome up (up =
\* TRUE) or from its highest down: the counts per card, lowest card
\* first, with the product of the branch weights.
RECURSIVE pop_sequences(_, _)
pop_sequences(deck, up) ==
    IF Len(deck.cards) = 0 THEN << <<<<>>, 1>> >>
    ELSE LET b == IF up THEN deck_pop_min(deck, deck.cards[1][1])
                  ELSE deck_pop_max(deck, deck.cards[Len(deck.cards)][1])
             below(j) == pop_sequences(b[j][1], up)
             RECURSIVE gather(_)
             gather(j) ==
                 IF j > Len(b) THEN <<>>
                 ELSE [i \in 1..Len(below(j)) |->
                         <<IF up THEN <<b[j][2]>> \o below(j)[i][1]
                           ELSE below(j)[i][1] \o <<b[j][2]>>,
                           b[j][3] * below(j)[i][2]>>] \o gather(j + 1)
         IN gather(1)

\* The hands of a deck: counts per card within the dups, summing to
\* hand_size.
hands(deck) ==
    {c \in [1..Len(deck.cards) -> 0..MaxCount] :
        /\ \A i \in 1..Len(deck.cards) : c[i] <= deck.cards[i][2]
        /\ SumSeq(c) = deck.hand_size}

\* The deck the last call returned, when it returned one.
DeckOut == q_call.op \in {"Deck", "_pop_min", "_pop_max"} /\ IsPoolOut

\* C26: for a deck with 0 <= hand_size <= deck_size, a pop of an outcome
\* with g copies yields the branches k = max(0, g + hand_size -
\* deck_size) .. min(g, hand_size), each of weight C(g, k) with a hand of
\* hand_size - k left; the complete pop sequences are the assignments of
\* counts within the dups that sum to hand_size, each once, and their
\* weights sum to denominator() = C(deck_size, hand_size).
C26_DeckPopsAreHands ==
    DeckOut =>
        LET deck == q_out[1]
            n == Len(deck.cards)
        IN /\ n > 0 =>
                /\ deck_pop_min(deck, deck.cards[1][1])
                      = claimed_pop(deck, deck.cards[1][2], Tail(deck.cards))
                /\ deck_pop_max(deck, deck.cards[n][1])
                      = claimed_pop(deck, deck.cards[n][2], SubSeq(deck.cards, 1, n - 1))
           /\ \A up \in BOOLEAN :
                LET seqs == pop_sequences(deck, up)
                IN /\ Len(seqs) = Cardinality(hands(deck))
                   /\ {seqs[i][1] : i \in 1..Len(seqs)} = hands(deck)
                   /\ SumSeq([i \in 1..Len(seqs) |-> seqs[i][2]])
                         = choose(deck_size(deck), deck.hand_size)
                   /\ deck_denominator(deck) = choose(deck_size(deck), deck.hand_size)

\* A pop of the highest outcome of a deck of three cards dealing two: the
\* outcome has two copies, at least one of them is dealt, and the branch
\* dealing one (of weight 2) has been followed.
C26_Witness ==
    /\ q_call.op = "_pop_max"
    /\ q_call.args[1] = Deck(<<<<1, 1>>, <<2, 2>>>>, 2)
    /\ q_call.args[2] = 2
    /\ q_call.args[3] = 1
    /\ deck_pop_max(q_call.args[1], 2)
          = <<<<Deck(<<<<1, 1>>>>, 1), 1, 2>>, <<Deck(<<<<1, 1>>>>, 0), 2, 1>>>>
    /\ q_out = Some(Deck(<<<<1, 1>>>>, 1))

\* The outcomes of the die of a pool of a level: none for None.
outcomes_left(pool) ==
    IF pool = None THEN {} ELSE {pool[1].die[k][1] : k \in 1..Len(pool[1].die)}

\* A recursive call of _eval_internal: no pool has more outcomes than in
\* the caller, one has fewer, and fewer distinct outcomes are left.
CallShrinks ==
    q_call.op = "next_state" =>
        LET caller == q_call.args[1]
            callee == q_out[1]
        IN /\ \A i \in 1..Len(caller) :
                 Cardinality(outcomes_left(callee[i])) <= Cardinality(outcomes_left(caller[i]))
           /\ \E i \in 1..Len(caller) :
                 Cardinality(outcomes_left(callee[i])) < Cardinality(outcomes_left(caller[i]))
           /\ Cardinality(UNION {outcomes_left(callee[i]) : i \in 1..Len(callee)})
                 < Cardinality(UNION {outcomes_left(caller[i]) : i \in 1..Len(caller)})

\* A level that is not the base case has a call to make: the product of
\* the pools' pops is not empty, or a pop raises.
LevelGoesOn ==
    Recursing =>
        LET pools == q_out[1]
            outcome == MaxOf({max_outcome(pools[i][1].die) :
                                i \in {j \in 1..Len(pools) : pools[j] # None}})
        IN \/ \E i \in 1..Len(pools) :
                 /\ pools[i] # None
                 /\ contains(pools[i][1].die, outcome)
                 /\ pools[i][1].min_outcomes # None
           \/ Len(product([i \in 1..Len(pools) |-> iter_pool(outcome, pools[i])])) > 0

\* An evaluation of pools that pop_max accepts has been started.
Evaluating ==
    /\ q_call.op = "eval"
    /\ \A i \in 1..Len(q_out[1]) : q_out[1][i][1].min_outcomes = None

\* The base case of _eval_internal: every pool is None.
BaseCase ==
    /\ q_call.op = "next_state"
    /\ \A i \in 1..Len(q_out[1]) : q_out[1][i] = None

RECURSIVE eval_internal_fed_descending(_, _)
eval_internal_fed_descending(initial, pools) ==
    IF \A i \in 1..Len(pools) : pools[i] = None
    THEN {initial}
    ELSE LET outcome == MaxOf({max_outcome(pools[i][1].die) :
                                 i \in {j \in 1..Len(pools) : pools[j] # None}})
             prod == product([i \in 1..Len(pools) |-> iter_pool(outcome, pools[i])])
         IN UNION {eval_internal_fed_descending(
                       Append(initial, outcome),
                       [i \in 1..Len(pools) |-> prod[j][i][1]]) :
                   j \in 1..Len(prod)}

\* EvalPool._eval_internal for next_state(prev_state, outcome, *counts) =
\* prev_state + (outcome,): the states of the returned distribution.
RECURSIVE eval_internal_fed(_, _)
eval_internal_fed(initial, pools) ==
    IF \A i \in 1..Len(pools) : pools[i] = None
    THEN {initial}
    ELSE LET outcome == MaxOf({max_outcome(pools[i][1].die) :
                                 i \in {j \in 1..Len(pools) : pools[j] # None}})
             prod == product([i \in 1..Len(pools) |-> iter_pool(outcome, pools[i])])
             prev(j) == eval_internal_fed(initial, [i \in 1..Len(pools) |-> prod[j][i][1]])
             counts(j) == [i \in 1..Len(pools) |-> prod[j][i][2]]
         IN UNION {{Append(prev_state, outcome) :
                       prev_state \in {st \in prev(j) :
                                          ~reroll_state("fed", st, outcome, counts(j))}} :
                   j \in 1..Len(prod)}

\* The pools evaluated next to another pool: one die of each kind.
SinglePools == {Pool(die, <<1>>, None, None) : die \in IterDice}

\* The pools given to an evaluation: pop_max accepts each of them.
FedPools ==
    LET accepted == {pool \in IterPools : pool.min_outcomes = None}
    IN {<<Some(pool)>> : pool \in accepted}
       \cup {<<Some(left), Some(right)>> : left \in accepted, right \in SinglePools}

\* ev._eval_internal((), *pools)
EvalFed ==
    /\ q_call.op = "none"
    /\ \E pools \in FedPools :
          Returned("fed", <<pools>>, eval_internal_fed(<<>>, pools))

NextFed == EvalFed

SpecFed == Init /\ [][NextFed]_vars

zeros(n) == [k \in 1..n |-> 0]
ones(n) == [k \in 1..n |-> 1]

\* return inner: no node is built.
Inner == [returns |-> "inner"]

\* KeepExpression(inner, sorted_roll_counts) for an int.
keep_new_int(sorted_roll_counts) ==
    IF sorted_roll_counts >= 0
    THEN KeepExpression("Ascending", zeros(sorted_roll_counts - 1) \o <<1>>)
    ELSE KeepExpression("Descending", <<1>> \o zeros(-sorted_roll_counts - 1))

\* KeepExpression(inner, slice(start, stop)), start and stop Optional.
keep_new_slice(start, stop) ==
    IF start = None
    THEN IF stop = None THEN Inner
         ELSE IF stop[1] < 0 THEN Raises("ValueError")
         ELSE KeepExpression("Ascending", ones(stop[1]))
    ELSE IF stop = None
    THEN IF start[1] >= 0 THEN Raises("ValueError")
         ELSE KeepExpression("Descending", ones(-start[1]))
    ELSE IF start[1] >= 0 /\ stop[1] >= 0
    THEN KeepExpression("Ascending", zeros(start[1]) \o ones(stop[1]))
    ELSE IF start[1] < 0 /\ stop[1] < 0
    THEN KeepExpression("Descending", zeros(-stop[1]) \o ones(-start[1]))
    ELSE Raises("ValueError")

\* The indexes given to the constructor.
Indexes == (-(MaxDice + 1))..(MaxDice + 1)
Bounds == {None} \cup {Some(i) : i \in Indexes}

\* KeepExpression(inner, i)
NewKeepInt ==
    /\ q_call.op = "none"
    /\ \E i \in Indexes : Returned("new_int", <<i>>, keep_new_int(i))

\* KeepExpression(inner, slice(start, stop))
NewKeepSlice ==
    /\ q_call.op = "none"
    /\ \E start \in Bounds, stop \in Bounds :
          Returned("new_slice", <<start, stop>>, keep_new_slice(start, stop))

NextIndex == NewKeepInt \/ NewKeepSlice

SpecIndex == Init /\ [][NextIndex]_vars

\* The positions (0 the lowest) of an ascending-sorted multiset of n
\* elements that a node keeps: an Ascending node reads its slots from the
\* low end, a Descending node reads them from the high end backwards.
kept_positions(self, n) ==
    LET slots == self.sorted_roll_counts
    IN IF self.order = "Ascending"
       THEN {p \in 0..n - 1 : p + 1 <= Len(slots) /\ slots[p + 1] > 0}
       ELSE {p \in 0..n - 1 : n - p <= Len(slots)
                                /\ slots[Len(slots) - (n - p) + 1] > 0}

\* The positions Python indexing selects from a sorted list of n elements.
index_positions(i, n) == {IF i < 0 THEN n + i ELSE i} \cap (0..n - 1)
slice_positions(start, stop, n) ==
    {p \in 0..n - 1 : slice_lo(n, start) <= p /\ p < slice_hi(n, stop)}

\* The sizes of the multisets a node is applied to.
Sizes == 0..(MaxDice + 2)

\* C29: the stored sorted_roll_counts select the positions Python indexing
\* selects from the ascending-sorted multiset: an int i >= 0 is stored as i
\* zeros and a single 1 and keeps position i, an int i < 0 keeps position i
\* from the high end, a slice with both bounds non-negative or both
\* negative keeps positions a..b-1, and distinct ints are stored
\* differently.
C29_KeepSelectsAsIndexing ==
    /\ q_call.op = "new_int" =>
          /\ \A n \in Sizes :
                kept_positions(q_out[1], n) = index_positions(q_call.args[1], n)
          /\ q_call.args[1] >= 0 =>
                q_out[1].sorted_roll_counts = zeros(q_call.args[1]) \o <<1>>
          /\ \A j \in Indexes \ {q_call.args[1]} : keep_new_int(j) # q_out[1]
    /\ (/\ q_call.op = "new_slice"
        /\ q_call.args[1] # None
        /\ q_call.args[2] # None
        /\ (q_call.args[1][1] >= 0) = (q_call.args[2][1] >= 0)) =>
          \A n \in Sizes :
             kept_positions(q_out[1], n)
                = slice_positions(q_call.args[1], q_call.args[2], n)

(***************************************************************************)
(* Alignment (icepool/generator/alignment.py): a generator over outcomes   *)
(* that takes part in the iteration without contributing counts.           *)
(***************************************************************************)
\* Alignment(outcomes): self._outcomes = tuple(sorted(outcomes))
Alignment(outcome_set) == [outcomes |-> SetToSeq(outcome_set)]

\* Alignment.output_arity
output_arity == 0

\* Alignment._generate_min: the branches (alignment, counts, weight).
generate_min(self, min_asked) ==
    IF Len(self.outcomes) = 0 \/ min_asked # self.outcomes[1]
    THEN << <<self, <<0>>, 1>> >>
    ELSE << <<[outcomes |-> Tail(self.outcomes)], <<>>, 1>> >>

\* Alignment._generate_max: the branches (alignment, counts, weight).
generate_max(self, max_asked) ==
    IF Len(self.outcomes) = 0 \/ max_asked # self.outcomes[Len(self.outcomes)]
    THEN << <<self, <<0>>, 1>> >>
    ELSE << <<[outcomes |-> SubSeq(self.outcomes, 1, Len(self.outcomes) - 1)],
              <<>>, 1>> >>

\* The outcomes of alignments and the outcomes asked for.
AlignOutcomes == 0..MaxDice

\* Alignment(outcomes)
NewAlignment ==
    /\ q_call.op = "none"
    /\ \E outcome_set \in SUBSET AlignOutcomes :
          Returned("Alignment", <<outcome_set>>, << <<Alignment(outcome_set), <<>>, 1>> >>)

\* alignment._generate_min(min_outcome), on the alignment last built or
\* yielded.
GenerateMin ==
    /\ q_call.op \in {"Alignment", "generate_min", "generate_max"}
    /\ \E self \in {q_out[1][1][1]}, min_asked \in AlignOutcomes :
          Returned("generate_min", <<self, min_asked>>,
                   generate_min(self, min_asked))

\* alignment._generate_max(max_outcome), on the alignment last built or
\* yielded.
GenerateMax ==
    /\ q_call.op \in {"Alignment", "generate_min", "generate_max"}
    /\ \E self \in {q_out[1][1][1]}, max_asked \in AlignOutcomes :
          Returned("generate_max", <<self, max_asked>>,
                   generate_max(self, max_asked))

NextAlign == NewAlignment \/ GenerateMin \/ GenerateMax

SpecAlign == Init /\ [][NextAlign]_vars

\* C30: every call of _generate_min / _generate_max yields one branch of
\* weight 1 whose counts have length output_arity; when the outcome asked
\* for is the extreme outcome of the alignment that outcome alone is
\* removed, otherwise the alignment is yielded unchanged.
C30_AlignmentYieldsNoCounts ==
    q_call.op \in {"generate_min", "generate_max"} =>
        LET self == q_call.args[1]
            outcome == q_call.args[2]
            left == {self.outcomes[k] : k \in 1..Len(self.outcomes)}
            extreme == IF q_call.op = "generate_min" THEN MinOf(left) ELSE MaxOf(left)
            branches == q_out[1]
        IN /\ Len(branches) = 1
           /\ branches[1][3] = 1
           /\ Len(branches[1][2]) = output_arity
           /\ branches[1][1] =
                 IF left # {} /\ outcome = extreme
                 THEN Alignment(left \ {outcome})
                 ELSE self

====
